---- MODULE Spec2Model ----
(***************************************************************************)
(* A model of n0madic/mysql-diff: the table parser's column definitions    *)
(* (pkg/parser) and the diff analyzer (pkg/diff).                           *)
(*                                                                         *)
(* Encoding of Go values:                                                  *)
(*   - a pointer *T is a sequence: <<>> is nil, <<v>> points at v;         *)
(*   - a value of type any is a tagged tuple: <<"null">> is the nil        *)
(*     interface, <<"bool", b>>, <<"string", s>>, <<"int", n>> box a T;    *)
(*   - a slice is a sequence (a nil slice and an empty one are both <<>>,  *)
(*     which is all len() and slices.Equal can tell);                      *)
(*   - a map is a function; the order in which `range` walks it is not     *)
(*     defined by the language, so it is an input of the operation.        *)
(***************************************************************************)
EXTENDS Integers, Sequences, FiniteSets, TLC

VARIABLES oldTable, newTable, diff, outcome, oldTokens, newTokens,
          statements, dump, parseResult, alterStatements

vars == <<oldTable, newTable, diff, outcome, oldTokens, newTokens,
          statements, dump, parseResult, alterStatements>>

\* the variables of a ParseSQLDump call and of a direct Parse call
dumpVars == <<statements, dump, parseResult>>

-----------------------------------------------------------------------------
(* Generic helpers *)

Nil == <<>>

Ptr(v) == <<v>>

Deref(p) == p[1]

AnyNil == <<"null">>

Range(s) == {s[i] : i \in DOMAIN s}

\* Body(v), with v evaluated once: the value of a local variable
With(v, Body(_)) == CHOOSE r \in {Body(x) : x \in {v}} : TRUE

\* strings.Join(elems, sep)
RECURSIVE Join(_, _)
Join(elems, sep) ==
    IF Len(elems) = 0 THEN ""
    ELSE IF Len(elems) = 1 THEN elems[1]
    ELSE elems[1] \o sep \o Join(Tail(elems), sep)

\* The orders in which `for k := range m` may visit the key set K.
RangeOrders(K) ==
    {o \in [1..Cardinality(K) -> K] : \A k \in K : \E i \in DOMAIN o : o[i] = k}

\* The map built by `for _, e := range list { m[key(e)] = e }`: a later
\* element with the same key overwrites an earlier one.
LastIndex(keys, k) == CHOOSE i \in DOMAIN keys :
    /\ keys[i] = k
    /\ \A j \in DOMAIN keys : keys[j] = k => j <= i

-----------------------------------------------------------------------------
(* pkg/diff: pointer helpers *)

ptrToValue_zero(ptr, T) ==
    IF ptr = Nil
    THEN (IF T = "bool" THEN <<"bool", FALSE>>
          ELSE IF T = "int" THEN <<"int", 0>> ELSE <<"string", "">>)
    ELSE <<T, Deref(ptr)>>

\* ptrToValue[T](ptr *T) any
ptrToValue(ptr, T) == IF ptr = Nil THEN AnyNil ELSE <<T, Deref(ptr)>>

ptrEqual_nilNeverEqual(a, b) ==
    IF a = Nil \/ b = Nil THEN FALSE
    ELSE Deref(a) = Deref(b)

\* ptrEqual[T comparable](a, b *T) bool
ptrEqual(a, b) ==
    IF a = Nil /\ b = Nil THEN TRUE
    ELSE IF a = Nil \/ b = Nil THEN FALSE
    ELSE Deref(a) = Deref(b)

generatedColumnEqual(a, b) ==
    IF a = Nil /\ b = Nil THEN TRUE
    ELSE IF a = Nil \/ b = Nil THEN FALSE
    ELSE Deref(a).Expression = Deref(b).Expression /\ Deref(a).Type = Deref(b).Type

\* slices.Equal on []string
slicesEqual(a, b) ==
    /\ Len(a) = Len(b)
    /\ \A i \in DOMAIN a : a[i] = b[i]

FieldChange(old, new) == Ptr([Old |-> old, New |-> new])


-----------------------------------------------------------------------------
(* pkg/diff: columns *)

dataTypesEqual_ignoreFlags(oldDT, newDT) ==
    /\ oldDT.Name = newDT.Name
    /\ slicesEqual(oldDT.Parameters, newDT.Parameters)

\* dataTypesEqual checks if two data types are equal
dataTypesEqual(oldDT, newDT) ==
    /\ oldDT.Name = newDT.Name
    /\ slicesEqual(oldDT.Parameters, newDT.Parameters)
    /\ oldDT.Unsigned = newDT.Unsigned
    /\ oldDT.Zerofill = newDT.Zerofill

\* dataTypeToString converts DataType to string representation
dataTypeToString(dt) ==
    LET r1 == dt.Name
        r2 == IF Len(dt.Parameters) > 0
              THEN r1 \o "(" \o Join(dt.Parameters, ",") \o ")" ELSE r1
        r3 == IF dt.Unsigned THEN r2 \o " UNSIGNED" ELSE r2
    IN  IF dt.Zerofill THEN r3 \o " ZEROFILL" ELSE r3

\* &ColumnChanges{}
EmptyColumnChanges ==
    [DataType |-> Nil, Nullable |-> Nil, DefaultValue |-> Nil,
     AutoIncrement |-> Nil, Unique |-> Nil, PrimaryKey |-> Nil,
     Comment |-> Nil, Collation |-> Nil, CharacterSet |-> Nil,
     Visible |-> Nil, ColumnFormat |-> Nil, Storage |-> Nil, Generated |-> Nil]

\* (*ColumnChanges).HasChanges
ColumnChanges_HasChanges(c) ==
    \/ c.DataType # Nil \/ c.Nullable # Nil \/ c.DefaultValue # Nil
    \/ c.AutoIncrement # Nil \/ c.Unique # Nil \/ c.PrimaryKey # Nil
    \/ c.Comment # Nil \/ c.Collation # Nil \/ c.CharacterSet # Nil
    \/ c.Visible # Nil \/ c.ColumnFormat # Nil \/ c.Storage # Nil
    \/ c.Generated # Nil

\* A FieldChange[any] over two *T when they are not ptrEqual, else nil.
PtrChange(a, b, T) ==
    IF ~ptrEqual(a, b) THEN FieldChange(ptrToValue(a, T), ptrToValue(b, T)) ELSE Nil

\* a comparison of two plain values that reports nothing
ValChange_dropped(a, b) == Nil

\* A FieldChange[T] over two plain values when they differ, else nil.
ValChange(a, b) == IF a # b THEN FieldChange(a, b) ELSE Nil

\* compareColumnDefinitions compares two column definitions and returns changes
compareColumnDefinitions(oldCol, newCol) ==
    [DataType      |-> IF ~dataTypesEqual(oldCol.DataType, newCol.DataType)
                       THEN FieldChange(dataTypeToString(oldCol.DataType),
                                        dataTypeToString(newCol.DataType))
                       ELSE Nil,
     Nullable      |-> PtrChange(oldCol.Nullable, newCol.Nullable, "bool"),
     DefaultValue  |-> PtrChange(oldCol.DefaultValue, newCol.DefaultValue, "string"),
     AutoIncrement |-> ValChange(oldCol.AutoIncrement, newCol.AutoIncrement),
     Unique        |-> ValChange(oldCol.Unique, newCol.Unique),
     PrimaryKey    |-> ValChange(oldCol.PrimaryKey, newCol.PrimaryKey),
     Comment       |-> PtrChange(oldCol.Comment, newCol.Comment, "string"),
     Collation     |-> PtrChange(oldCol.Collation, newCol.Collation, "string"),
     CharacterSet  |-> PtrChange(oldCol.CharacterSet, newCol.CharacterSet, "string"),
     Visible       |-> PtrChange(oldCol.Visible, newCol.Visible, "bool"),
     ColumnFormat  |-> PtrChange(oldCol.ColumnFormat, newCol.ColumnFormat, "string"),
     Storage       |-> PtrChange(oldCol.Storage, newCol.Storage, "string"),
     Generated     |-> IF ~generatedColumnEqual(oldCol.Generated, newCol.Generated)
                       THEN FieldChange(oldCol.Generated, newCol.Generated)
                       ELSE Nil]

\* oldColsMap / newColsMap of compareColumns: name -> column, last one wins
ColsMap(columns) ==
    [n \in {columns[i].Name : i \in DOMAIN columns} |->
        columns[LastIndex([i \in DOMAIN columns |-> columns[i].Name], n)]]

\* The body of `for colName := range allColumnNames`: what one name appends.
compareColumnsStep(oldColsMap, newColsMap, colName) ==
    LET hasOld == colName \in DOMAIN oldColsMap
        hasNew == colName \in DOMAIN newColsMap
    IN  IF ~hasOld
        THEN <<[Name |-> colName, ChangeType |-> "added",
                OldColumn |-> Nil, NewColumn |-> Ptr(newColsMap[colName]),
                Changes |-> EmptyColumnChanges]>>
        ELSE IF ~hasNew
        THEN <<[Name |-> colName, ChangeType |-> "removed",
                OldColumn |-> Ptr(oldColsMap[colName]), NewColumn |-> Nil,
                Changes |-> EmptyColumnChanges]>>
        ELSE LET changes == compareColumnDefinitions(oldColsMap[colName],
                                                     newColsMap[colName])
             IN  IF ColumnChanges_HasChanges(changes)
                 THEN <<[Name |-> colName, ChangeType |-> "modified",
                         OldColumn |-> Ptr(oldColsMap[colName]),
                         NewColumn |-> Ptr(newColsMap[colName]),
                         Changes |-> changes]>>
                 ELSE <<>>

RECURSIVE compareColumnsLoop(_, _, _, _)
compareColumnsLoop(oldColsMap, newColsMap, order, i) ==
    IF i > Len(order) THEN <<>>
    ELSE compareColumnsStep(oldColsMap, newColsMap, order[i])
         \o compareColumnsLoop(oldColsMap, newColsMap, order, i + 1)

\* allColumnNames of compareColumns
allColumnNames(oldColumns, newColumns) ==
    DOMAIN ColsMap(oldColumns) \cup DOMAIN ColsMap(newColumns)

compareColumns_positional(oldColumns, newColumns, order) ==
    compareColumnsLoop(
        ColsMap(oldColumns),
        [n \in DOMAIN ColsMap(newColumns) |->
            IF n \in DOMAIN ColsMap(oldColumns) /\ Len(oldColumns) = Len(newColumns)
            THEN newColumns[LastIndex([i \in DOMAIN oldColumns |-> oldColumns[i].Name], n)]
            ELSE ColsMap(newColumns)[n]],
        order, 1)

\* compareColumns compares column definitions between old and new tables;
\* order is the order in which the range over allColumnNames visits the names.
compareColumns(oldColumns, newColumns, order) ==
    compareColumnsLoop(ColsMap(oldColumns), ColsMap(newColumns), order, 1)

-----------------------------------------------------------------------------
(* pkg/diff: primary key *)

\* the Name of every element of an []IndexColumn
IndexColumnNames(columns) == [i \in DOMAIN columns |-> columns[i].Name]

EmptyPrimaryKeyChanges == [Columns |-> Nil, Name |-> Nil, Using |-> Nil, Comment |-> Nil]

\* (*PrimaryKeyChanges).HasChanges
PrimaryKeyChanges_HasChanges(c) ==
    c.Columns # Nil \/ c.Name # Nil \/ c.Using # Nil \/ c.Comment # Nil

\* comparePrimaryKeys compares primary key definitions
comparePrimaryKeys(oldPK, newPK) ==
    IF oldPK = Nil /\ newPK = Nil THEN Nil
    ELSE IF oldPK = Nil
    THEN Ptr([ChangeType |-> "added", OldPK |-> Nil, NewPK |-> newPK,
              Changes |-> EmptyPrimaryKeyChanges])
    ELSE IF newPK = Nil
    THEN Ptr([ChangeType |-> "removed", OldPK |-> oldPK, NewPK |-> Nil,
              Changes |-> EmptyPrimaryKeyChanges])
    ELSE LET o == Deref(oldPK)
             n == Deref(newPK)
             oldCols == IndexColumnNames(o.Columns)
             newCols == IndexColumnNames(n.Columns)
             changes ==
                 [Columns |-> IF ~slicesEqual(oldCols, newCols)
                              THEN FieldChange(oldCols, newCols) ELSE Nil,
                  Name    |-> PtrChange(o.Name, n.Name, "string"),
                  Using   |-> PtrChange(o.Using, n.Using, "string"),
                  Comment |-> PtrChange(o.Comment, n.Comment, "string")]
         IN  IF PrimaryKeyChanges_HasChanges(changes)
             THEN Ptr([ChangeType |-> "modified", OldPK |-> oldPK, NewPK |-> newPK,
                       Changes |-> changes])
             ELSE Nil

-----------------------------------------------------------------------------
(* pkg/diff: indexes *)

\* indexKey of compareIndexes: fmt.Sprintf("%s:%s:%s", name, cols joined by ":", type)
indexKey(idx) ==
    (IF idx.Name # Nil THEN Deref(idx.Name) ELSE "")
        \o ":" \o Join(IndexColumnNames(idx.Columns), ":")
        \o ":" \o idx.IndexType

EmptyIndexChanges ==
    [Name |-> Nil, IndexType |-> Nil, Columns |-> Nil, KeyBlockSize |-> Nil,
     Using |-> Nil, Comment |-> Nil, Visible |-> Nil, Parser |-> Nil,
     Algorithm |-> Nil, Lock |-> Nil, EngineAttribute |-> Nil]

\* (*IndexChanges).HasChanges
IndexChanges_HasChanges(c) ==
    \/ c.Name # Nil \/ c.IndexType # Nil \/ c.Columns # Nil
    \/ c.KeyBlockSize # Nil \/ c.Using # Nil \/ c.Comment # Nil
    \/ c.Visible # Nil \/ c.Parser # Nil \/ c.Algorithm # Nil
    \/ c.Lock # Nil \/ c.EngineAttribute # Nil

\* indexColumnsEqual checks if two index column lists are equal
indexColumnsEqual(oldCols, newCols) ==
    /\ Len(oldCols) = Len(newCols)
    /\ \A i \in DOMAIN oldCols :
          /\ oldCols[i].Name = newCols[i].Name
          /\ ptrEqual(oldCols[i].Length, newCols[i].Length)
          /\ ptrEqual(oldCols[i].Direction, newCols[i].Direction)

\* fmt.Sprintf("%d", n) for the small lengths of the model
IntToString(n) ==
    IF n < 10
    THEN <<"0", "1", "2", "3", "4", "5", "6", "7", "8", "9">>[n + 1]
    ELSE <<"0", "1", "2", "3", "4", "5", "6", "7", "8", "9">>[(n \div 10) + 1]
         \o <<"0", "1", "2", "3", "4", "5", "6", "7", "8", "9">>[(n % 10) + 1]

\* one element of indexColumnsToString: name, "(length)" and " direction"
indexColumnToString(col) ==
    LET s1 == col.Name
        s2 == IF col.Length # Nil
              THEN s1 \o "(" \o IntToString(Deref(col.Length)) \o ")" ELSE s1
    IN  IF col.Direction # Nil THEN s2 \o " " \o Deref(col.Direction) ELSE s2

\* indexColumnsToString converts index columns to string representation
indexColumnsToString(columns) ==
    "(" \o Join([i \in DOMAIN columns |-> indexColumnToString(columns[i])], ", ") \o ")"

\* compareIndexDefinitions compares two index definitions
compareIndexDefinitions(oldIdx, newIdx) ==
    [Name            |-> PtrChange(oldIdx.Name, newIdx.Name, "string"),
     IndexType       |-> ValChange(oldIdx.IndexType, newIdx.IndexType),
     KeyBlockSize    |-> PtrChange(oldIdx.KeyBlockSize, newIdx.KeyBlockSize, "int"),
     Comment         |-> PtrChange(oldIdx.Comment, newIdx.Comment, "string"),
     Using           |-> PtrChange(oldIdx.Using, newIdx.Using, "string"),
     Visible         |-> PtrChange(oldIdx.Visible, newIdx.Visible, "bool"),
     Parser          |-> PtrChange(oldIdx.Parser, newIdx.Parser, "string"),
     Algorithm       |-> PtrChange(oldIdx.Algorithm, newIdx.Algorithm, "string"),
     Lock            |-> PtrChange(oldIdx.Lock, newIdx.Lock, "string"),
     EngineAttribute |-> PtrChange(oldIdx.EngineAttribute, newIdx.EngineAttribute,
                                   "string"),
     Columns         |-> IF ~indexColumnsEqual(oldIdx.Columns, newIdx.Columns)
                         THEN FieldChange(
                                <<"string", indexColumnsToString(oldIdx.Columns)>>,
                                <<"string", indexColumnsToString(newIdx.Columns)>>)
                         ELSE Nil]

\* oldIndexesMap / newIndexesMap of compareIndexes: key -> index, last one wins
IndexesMap(indexes) ==
    [k \in {indexKey(indexes[i]) : i \in DOMAIN indexes} |->
        indexes[LastIndex([i \in DOMAIN indexes |-> indexKey(indexes[i])], k)]]

\* The body of `for idxKey := range allIndexKeys`: what one key appends.
compareIndexesStep(oldIndexesMap, newIndexesMap, idxKey) ==
    LET hasOld == idxKey \in DOMAIN oldIndexesMap
        hasNew == idxKey \in DOMAIN newIndexesMap
    IN  IF ~hasOld
        THEN <<[Name |-> newIndexesMap[idxKey].Name, ChangeType |-> "added",
                OldIndex |-> Nil, NewIndex |-> Ptr(newIndexesMap[idxKey]),
                Changes |-> EmptyIndexChanges]>>
        ELSE IF ~hasNew
        THEN <<[Name |-> oldIndexesMap[idxKey].Name, ChangeType |-> "removed",
                OldIndex |-> Ptr(oldIndexesMap[idxKey]), NewIndex |-> Nil,
                Changes |-> EmptyIndexChanges]>>
        ELSE LET changes == compareIndexDefinitions(oldIndexesMap[idxKey],
                                                    newIndexesMap[idxKey])
             IN  IF IndexChanges_HasChanges(changes)
                 THEN <<[Name |-> oldIndexesMap[idxKey].Name,
                         ChangeType |-> "modified",
                         OldIndex |-> Ptr(oldIndexesMap[idxKey]),
                         NewIndex |-> Ptr(newIndexesMap[idxKey]),
                         Changes |-> changes]>>
                 ELSE <<>>

RECURSIVE compareIndexesLoop(_, _, _, _)
compareIndexesLoop(oldIndexesMap, newIndexesMap, order, i) ==
    IF i > Len(order) THEN <<>>
    ELSE compareIndexesStep(oldIndexesMap, newIndexesMap, order[i])
         \o compareIndexesLoop(oldIndexesMap, newIndexesMap, order, i + 1)

\* allIndexKeys of compareIndexes
allIndexKeys(oldIndexes, newIndexes) ==
    DOMAIN IndexesMap(oldIndexes) \cup DOMAIN IndexesMap(newIndexes)

\* compareIndexes compares index definitions; order is the order in which the
\* range over allIndexKeys visits the keys.
compareIndexes(oldIndexes, newIndexes, order) ==
    compareIndexesLoop(IndexesMap(oldIndexes), IndexesMap(newIndexes), order, 1)

-----------------------------------------------------------------------------
(* pkg/diff: foreign keys *)

\* fkKey of compareForeignKeys: "name:cols:reftable:refcols", lists joined by ":"
fkKey(fk) ==
    (IF fk.Name # Nil THEN Deref(fk.Name) ELSE "")
        \o ":" \o Join(fk.Columns, ":")
        \o ":" \o fk.Reference.TableName \o ":" \o Join(fk.Reference.Columns, ":")

EmptyForeignKeyChanges ==
    [Name |-> Nil, Columns |-> Nil, ReferenceTable |-> Nil,
     ReferenceColumns |-> Nil, OnDelete |-> Nil, OnUpdate |-> Nil]

\* (*ForeignKeyChanges).HasChanges
ForeignKeyChanges_HasChanges(c) ==
    \/ c.Name # Nil \/ c.Columns # Nil \/ c.ReferenceTable # Nil
    \/ c.ReferenceColumns # Nil \/ c.OnDelete # Nil \/ c.OnUpdate # Nil

compareForeignKeyDefinitions_onDeleteOnly(oldFK, newFK) ==
    [Name             |-> PtrChange(oldFK.Name, newFK.Name, "string"),
     Columns          |-> IF ~slicesEqual(oldFK.Columns, newFK.Columns)
                          THEN FieldChange(oldFK.Columns, newFK.Columns) ELSE Nil,
     ReferenceTable   |-> ValChange(oldFK.Reference.TableName, newFK.Reference.TableName),
     ReferenceColumns |-> IF ~slicesEqual(oldFK.Reference.Columns, newFK.Reference.Columns)
                          THEN FieldChange(oldFK.Reference.Columns, newFK.Reference.Columns)
                          ELSE Nil,
     OnDelete         |-> PtrChange(oldFK.Reference.OnDelete, newFK.Reference.OnDelete,
                                    "string"),
     OnUpdate         |-> Nil]

\* compareForeignKeyDefinitions compares two foreign key definitions
compareForeignKeyDefinitions(oldFK, newFK) ==
    [Name             |-> PtrChange(oldFK.Name, newFK.Name, "string"),
     Columns          |-> IF ~slicesEqual(oldFK.Columns, newFK.Columns)
                          THEN FieldChange(oldFK.Columns, newFK.Columns) ELSE Nil,
     ReferenceTable   |-> ValChange(oldFK.Reference.TableName, newFK.Reference.TableName),
     ReferenceColumns |-> IF ~slicesEqual(oldFK.Reference.Columns, newFK.Reference.Columns)
                          THEN FieldChange(oldFK.Reference.Columns, newFK.Reference.Columns)
                          ELSE Nil,
     OnDelete         |-> PtrChange(oldFK.Reference.OnDelete, newFK.Reference.OnDelete,
                                    "string"),
     OnUpdate         |-> PtrChange(oldFK.Reference.OnUpdate, newFK.Reference.OnUpdate,
                                    "string")]

\* oldFKsMap / newFKsMap of compareForeignKeys: key -> foreign key, last one wins
FKsMap(fks) ==
    [k \in {fkKey(fks[i]) : i \in DOMAIN fks} |->
        fks[LastIndex([i \in DOMAIN fks |-> fkKey(fks[i])], k)]]

\* The body of `for fkKeyStr := range allFKKeys`: what one key appends.
compareForeignKeysStep(oldFKsMap, newFKsMap, fkKeyStr) ==
    LET hasOld == fkKeyStr \in DOMAIN oldFKsMap
        hasNew == fkKeyStr \in DOMAIN newFKsMap
    IN  IF ~hasOld
        THEN <<[Name |-> newFKsMap[fkKeyStr].Name, ChangeType |-> "added",
                OldFK |-> Nil, NewFK |-> Ptr(newFKsMap[fkKeyStr]),
                Changes |-> EmptyForeignKeyChanges]>>
        ELSE IF ~hasNew
        THEN <<[Name |-> oldFKsMap[fkKeyStr].Name, ChangeType |-> "removed",
                OldFK |-> Ptr(oldFKsMap[fkKeyStr]), NewFK |-> Nil,
                Changes |-> EmptyForeignKeyChanges]>>
        ELSE LET changes == compareForeignKeyDefinitions(oldFKsMap[fkKeyStr],
                                                         newFKsMap[fkKeyStr])
             IN  IF ForeignKeyChanges_HasChanges(changes)
                 THEN <<[Name |-> oldFKsMap[fkKeyStr].Name,
                         ChangeType |-> "modified",
                         OldFK |-> Ptr(oldFKsMap[fkKeyStr]),
                         NewFK |-> Ptr(newFKsMap[fkKeyStr]),
                         Changes |-> changes]>>
                 ELSE <<>>

RECURSIVE compareForeignKeysLoop(_, _, _, _)
compareForeignKeysLoop(oldFKsMap, newFKsMap, order, i) ==
    IF i > Len(order) THEN <<>>
    ELSE compareForeignKeysStep(oldFKsMap, newFKsMap, order[i])
         \o compareForeignKeysLoop(oldFKsMap, newFKsMap, order, i + 1)

\* allFKKeys of compareForeignKeys
allFKKeys(oldFKs, newFKs) == DOMAIN FKsMap(oldFKs) \cup DOMAIN FKsMap(newFKs)

\* compareForeignKeys compares foreign key definitions; order is the order in
\* which the range over allFKKeys visits the keys.
compareForeignKeys(oldFKs, newFKs, order) ==
    compareForeignKeysLoop(FKsMap(oldFKs), FKsMap(newFKs), order, 1)

-----------------------------------------------------------------------------
(* pkg/diff: table options and partitioning *)

EmptyTableOptionsChanges ==
    [Engine |-> Nil, AutoIncrement |-> Nil, CharacterSet |-> Nil,
     Collate |-> Nil, Comment |-> Nil]

\* (*TableOptionsChanges).HasChanges
TableOptionsChanges_HasChanges(c) ==
    \/ c.Engine # Nil \/ c.AutoIncrement # Nil \/ c.CharacterSet # Nil
    \/ c.Collate # Nil \/ c.Comment # Nil

\* a comparison of the table options that looks at every recorded option
compareTableOptions_allOptions(oldOpts, newOpts) ==
    IF oldOpts = Nil /\ newOpts = Nil THEN Nil
    ELSE IF oldOpts = Nil
    THEN Ptr([ChangeType |-> "added", OldOptions |-> Nil, NewOptions |-> newOpts,
              Changes |-> EmptyTableOptionsChanges])
    ELSE IF newOpts = Nil
    THEN Ptr([ChangeType |-> "removed", OldOptions |-> oldOpts, NewOptions |-> Nil,
              Changes |-> EmptyTableOptionsChanges])
    ELSE LET o == Deref(oldOpts)
             n == Deref(newOpts)
             changes ==
                 [Engine        |-> PtrChange(o.Engine, n.Engine, "string"),
                  AutoIncrement |-> PtrChange(o.AutoIncrement, n.AutoIncrement, "int"),
                  CharacterSet  |-> PtrChange(o.CharacterSet, n.CharacterSet, "string"),
                  Collate       |-> PtrChange(o.Collate, n.Collate, "string"),
                  Comment       |-> PtrChange(o.Comment, n.Comment, "string")]
         IN  IF o # n
             THEN Ptr([ChangeType |-> "modified", OldOptions |-> oldOpts,
                       NewOptions |-> newOpts, Changes |-> changes])
             ELSE Nil

\* compareTableOptions compares table options
compareTableOptions(oldOpts, newOpts) ==
    IF oldOpts = Nil /\ newOpts = Nil THEN Nil
    ELSE IF oldOpts = Nil
    THEN Ptr([ChangeType |-> "added", OldOptions |-> Nil, NewOptions |-> newOpts,
              Changes |-> EmptyTableOptionsChanges])
    ELSE IF newOpts = Nil
    THEN Ptr([ChangeType |-> "removed", OldOptions |-> oldOpts, NewOptions |-> Nil,
              Changes |-> EmptyTableOptionsChanges])
    ELSE LET o == Deref(oldOpts)
             n == Deref(newOpts)
             changes ==
                 [Engine        |-> PtrChange(o.Engine, n.Engine, "string"),
                  AutoIncrement |-> PtrChange(o.AutoIncrement, n.AutoIncrement, "int"),
                  CharacterSet  |-> PtrChange(o.CharacterSet, n.CharacterSet, "string"),
                  Collate       |-> PtrChange(o.Collate, n.Collate, "string"),
                  Comment       |-> PtrChange(o.Comment, n.Comment, "string")]
         IN  IF TableOptionsChanges_HasChanges(changes)
             THEN Ptr([ChangeType |-> "modified", OldOptions |-> oldOpts,
                       NewOptions |-> newOpts, Changes |-> changes])
             ELSE Nil

EmptyPartitionChanges ==
    [Type |-> Nil, Linear |-> Nil, Expression |-> Nil, Columns |-> Nil,
     PartitionsCount |-> Nil, PartitionDefinitions |-> Nil]

\* (*PartitionChanges).HasChanges
PartitionChanges_HasChanges(c) ==
    \/ c.Type # Nil \/ c.Linear # Nil \/ c.Expression # Nil
    \/ c.Columns # Nil \/ c.PartitionsCount # Nil \/ c.PartitionDefinitions # Nil

\* comparePartitions compares partition options
comparePartitions(oldPart, newPart) ==
    IF oldPart = Nil /\ newPart = Nil THEN Nil
    ELSE IF oldPart = Nil
    THEN Ptr([ChangeType |-> "added", OldPartition |-> Nil, NewPartition |-> newPart,
              Changes |-> EmptyPartitionChanges])
    ELSE IF newPart = Nil
    THEN Ptr([ChangeType |-> "removed", OldPartition |-> oldPart, NewPartition |-> Nil,
              Changes |-> EmptyPartitionChanges])
    ELSE LET o == Deref(oldPart)
             n == Deref(newPart)
             oldPartCount == Len(o.Partitions)
             newPartCount == Len(n.Partitions)
             changes ==
                 [Type       |-> ValChange(o.Type, n.Type),
                  Linear     |-> ValChange(o.Linear, n.Linear),
                  Expression |-> PtrChange(o.Expression, n.Expression, "string"),
                  Columns    |-> IF ~slicesEqual(o.Columns, n.Columns)
                                 THEN FieldChange(o.Columns, n.Columns) ELSE Nil,
                  PartitionsCount |->
                      PtrChange(o.PartitionCount, n.PartitionCount, "int"),
                  PartitionDefinitions |->
                      IF oldPartCount # newPartCount
                      THEN FieldChange(<<"int", oldPartCount>>, <<"int", newPartCount>>)
                      ELSE Nil]
         IN  IF PartitionChanges_HasChanges(changes)
             THEN Ptr([ChangeType |-> "modified", OldPartition |-> oldPart,
                       NewPartition |-> newPart, Changes |-> changes])
             ELSE Nil

-----------------------------------------------------------------------------
(* pkg/diff: the change-set *)

\* the number of entries of diffs whose ChangeType is kind
CountKind(diffs, kind) == Cardinality({i \in DOMAIN diffs : diffs[i].ChangeType = kind})

\* The TableDiff literal CompareTables starts from: the two inputs, empty
\* lists, and the zero value of every other field.
NewTableDiff(old, new) ==
    [OldTable |-> old, NewTable |-> new,
     TableNameChanged |-> FALSE, TableOptionsChanged |-> FALSE,
     ColumnDiffs |-> <<>>, PrimaryKeyDiff |-> Nil, IndexDiffs |-> <<>>,
     ForeignKeyDiffs |-> <<>>, TableOptionsDiff |-> Nil, PartitionDiff |-> Nil,
     ColumnsAdded |-> 0, ColumnsRemoved |-> 0, ColumnsModified |-> 0,
     IndexesAdded |-> 0, IndexesRemoved |-> 0, IndexesModified |-> 0,
     ForeignKeysAdded |-> 0, ForeignKeysRemoved |-> 0, ForeignKeysModified |-> 0]

updateCounters_modifiedAsAdded(d) ==
    [d EXCEPT
        !.ColumnsAdded = @ + CountKind(d.ColumnDiffs, "added")
                           + CountKind(d.ColumnDiffs, "modified"),
        !.ColumnsRemoved = @ + CountKind(d.ColumnDiffs, "removed"),
        !.IndexesAdded = @ + CountKind(d.IndexDiffs, "added"),
        !.IndexesRemoved = @ + CountKind(d.IndexDiffs, "removed"),
        !.IndexesModified = @ + CountKind(d.IndexDiffs, "modified"),
        !.ForeignKeysAdded = @ + CountKind(d.ForeignKeyDiffs, "added"),
        !.ForeignKeysRemoved = @ + CountKind(d.ForeignKeyDiffs, "removed"),
        !.ForeignKeysModified = @ + CountKind(d.ForeignKeyDiffs, "modified"),
        !.TableOptionsChanged = (d.TableOptionsDiff # Nil)]

\* updateCounters without its index and foreign-key loops
updateCounters_columnsOnly(d) ==
    [d EXCEPT
        !.ColumnsAdded = @ + CountKind(d.ColumnDiffs, "added"),
        !.ColumnsRemoved = @ + CountKind(d.ColumnDiffs, "removed"),
        !.ColumnsModified = @ + CountKind(d.ColumnDiffs, "modified"),
        !.TableOptionsChanged = (d.TableOptionsDiff # Nil)]

\* updateCounters updates summary counters in the diff object
updateCounters(d) ==
    [d EXCEPT
        !.ColumnsAdded = @ + CountKind(d.ColumnDiffs, "added"),
        !.ColumnsRemoved = @ + CountKind(d.ColumnDiffs, "removed"),
        !.ColumnsModified = @ + CountKind(d.ColumnDiffs, "modified"),
        !.IndexesAdded = @ + CountKind(d.IndexDiffs, "added"),
        !.IndexesRemoved = @ + CountKind(d.IndexDiffs, "removed"),
        !.IndexesModified = @ + CountKind(d.IndexDiffs, "modified"),
        !.ForeignKeysAdded = @ + CountKind(d.ForeignKeyDiffs, "added"),
        !.ForeignKeysRemoved = @ + CountKind(d.ForeignKeyDiffs, "removed"),
        !.ForeignKeysModified = @ + CountKind(d.ForeignKeyDiffs, "modified"),
        !.TableOptionsChanged = (d.TableOptionsDiff # Nil)]

\* HasChanges without the partition test
HasChanges_noPartition(td) ==
    \/ td.TableNameChanged
    \/ td.TableOptionsChanged
    \/ Len(td.ColumnDiffs) > 0
    \/ td.PrimaryKeyDiff # Nil
    \/ Len(td.IndexDiffs) > 0
    \/ Len(td.ForeignKeyDiffs) > 0
    \/ td.TableOptionsDiff # Nil

\* (*TableDiff).HasChanges
HasChanges(td) ==
    \/ td.TableNameChanged
    \/ td.TableOptionsChanged
    \/ Len(td.ColumnDiffs) > 0
    \/ td.PrimaryKeyDiff # Nil
    \/ Len(td.IndexDiffs) > 0
    \/ Len(td.ForeignKeyDiffs) > 0
    \/ td.TableOptionsDiff # Nil
    \/ td.PartitionDiff # Nil

\* CompareTables dereferences both arguments (oldTable.TableName,
\* newTable.TableName, ...) without a nil check: a nil argument is a nil
\* pointer dereference, a run-time panic.
CompareTablesPanics(old, new) == old = Nil \/ new = Nil

\* The change-set CompareTables returns for two non-nil tables; colOrder,
\* idxOrder and fkOrder are the orders of the three map ranges.
CompareTables(old, new, colOrder, idxOrder, fkOrder) ==
    LET o == Deref(old)
        n == Deref(new)
    IN  updateCounters(
          [NewTableDiff(old, new) EXCEPT
             !.TableNameChanged = (o.TableName # n.TableName),
             !.ColumnDiffs = compareColumns(o.Columns, n.Columns, colOrder),
             !.PrimaryKeyDiff = comparePrimaryKeys(o.PrimaryKey, n.PrimaryKey),
             !.IndexDiffs = compareIndexes(o.Indexes, n.Indexes, idxOrder),
             !.ForeignKeyDiffs = compareForeignKeys(o.ForeignKeys, n.ForeignKeys, fkOrder),
             !.TableOptionsDiff = compareTableOptions(o.TableOptions, n.TableOptions),
             !.PartitionDiff = comparePartitions(o.PartitionOptions, n.PartitionOptions)])

-----------------------------------------------------------------------------
(* pkg/parser: the table parser's cursor.  A parser is [tokens, pos]; pos is  *)
(* the Go cursor plus one, and currentToken is a function of the two.         *)

Tok(type, value) == [Type |-> type, Value |-> value]

\* Token{Type: EOF, Value: ""}: what the cursor reads past the last token
EOFToken == Tok("EOF", "")

-----------------------------------------------------------------------------
(* pkg/parser: the lexer.  A text is a string; a rune of it is the         *)
(* one-character string at a position.  Token positions, lines and columns *)
(* are left out: nothing that is modelled reads them.                      *)

\* The rune that opens and closes a quoted identifier.  The texts of this
\* module write it as ^, a string of the module having no way to hold the
\* grave accent itself.
Backtick == "^"

\* unicode.IsSpace, on the characters of the texts lexed
IsSpace(c) == c \in {" ", "\t", "\n", "\r"}

\* unicode.IsDigit
IsDigit(c) == c \in {"0", "1", "2", "3", "4", "5", "6", "7", "8", "9"}

UpperLetters == "ABCDEFGHIJKLMNOPQRSTUVWXYZ"

LowerLetters == "abcdefghijklmnopqrstuvwxyz"

\* unicode.IsLetter, on the letters of the texts lexed
IsLetter(c) ==
    \E i \in 1..26 : c = SubSeq(UpperLetters, i, i) \/ c = SubSeq(LowerLetters, i, i)

\* unicode.ToUpper of one rune
ToUpperRune(c) ==
    IF \E i \in 1..26 : c = SubSeq(LowerLetters, i, i)
    THEN LET i == CHOOSE i \in 1..26 : c = SubSeq(LowerLetters, i, i)
         IN  SubSeq(UpperLetters, i, i)
    ELSE c

\* strings.ToUpper(value) = upper, rune by rune
IsToUpper(value, upper) ==
    /\ Len(value) = Len(upper)
    /\ \A i \in 1..Len(value) : ToUpperRune(SubSeq(value, i, i)) = SubSeq(upper, i, i)

\* lexer.keywords: every keyword maps to the token type of its own name
keywords ==
    {"CREATE", "TABLE", "TEMPORARY", "IF", "NOT", "EXISTS", "LIKE", "AS", "SELECT",
     "IGNORE", "REPLACE", "INT", "TINYINT", "SMALLINT", "MEDIUMINT", "BIGINT",
     "VARCHAR", "CHAR", "TEXT", "DECIMAL", "FLOAT", "DOUBLE", "DATE", "DATETIME",
     "TIMESTAMP", "TIME", "YEAR", "BLOB", "JSON", "ENUM", "SET", "BINARY",
     "VARBINARY", "BIT", "GEOMETRY", "POINT", "LINESTRING", "POLYGON", "NULL",
     "DEFAULT", "AUTO_INCREMENT", "UNIQUE", "PRIMARY", "KEY", "COMMENT", "COLLATE",
     "CHARACTER", "CHARSET", "VISIBLE", "INVISIBLE", "GENERATED", "ALWAYS",
     "VIRTUAL", "STORED", "UNSIGNED", "ZEROFILL", "INDEX", "FULLTEXT", "SPATIAL",
     "FOREIGN", "REFERENCES", "CHECK", "CONSTRAINT", "ENGINE", "ROW_FORMAT",
     "TABLESPACE", "DATA", "DIRECTORY", "COMPRESSION", "ENCRYPTION",
     "KEY_BLOCK_SIZE", "MAX_ROWS", "MIN_ROWS", "STATS_PERSISTENT",
     "STATS_AUTO_RECALC", "STATS_SAMPLE_PAGES", "PACK_KEYS", "CHECKSUM",
     "DELAY_KEY_WRITE", "UNION", "INSERT_METHOD", "PARTITION", "BY", "HASH",
     "RANGE", "LIST", "COLUMNS", "VALUES", "LESS", "THAN", "IN", "MAXVALUE",
     "LINEAR", "ON", "DELETE", "UPDATE", "CASCADE", "RESTRICT", "NO", "ACTION",
     "ASC", "DESC", "WITH", "PARSER", "ALGORITHM", "LOCK", "ENGINE_ATTRIBUTE",
     "INPLACE", "NONE", "FIRST", "LAST", "COLUMN_FORMAT", "FIXED", "DYNAMIC",
     "STORAGE", "DISK", "MEMORY", "COMPRESSED", "DROP", "USE", "DATABASE"}

\* charTokens of GetNextToken
charTokens(c) ==
    CASE c = "(" -> "LPAREN"
      [] c = ")" -> "RPAREN"
      [] c = "," -> "COMMA"
      [] c = ";" -> "SEMICOLON"
      [] c = "=" -> "EQUALS"
      [] c = "." -> "DOT"
      [] OTHER -> ""

\* NewMySQLLexer: the text and the position of the current rune, from 1
NewMySQLLexer(text) == [text |-> text, pos |-> 1]

\* l.currentChar: nil at the end of the text
currentChar(l) ==
    IF l.pos <= Len(l.text) THEN Ptr(SubSeq(l.text, l.pos, l.pos)) ELSE Nil

\* (*MySQLLexer).advance
MySQLLexer_advance(l) == [l EXCEPT !.pos = @ + 1]

\* (*MySQLLexer).peek(offset)
MySQLLexer_peek(l, off) ==
    IF l.pos + off <= Len(l.text)
    THEN Ptr(SubSeq(l.text, l.pos + off, l.pos + off)) ELSE Nil

\* Where a loop `for l.currentChar != nil && cond(*l.currentChar) { l.advance() }`
\* leaves the lexer: at the first rune from l.pos on that is not one of
\* chars, or at the end of the text.
ScanWhile(l, chars) ==
    CHOOSE j \in l.pos..(Len(l.text) + 1) :
        /\ j = Len(l.text) + 1 \/ SubSeq(l.text, j, j) \notin chars
        /\ \A k \in l.pos..(j - 1) : SubSeq(l.text, k, k) \in chars

\* The same for a loop that runs up to a rune of stops.
ScanUntil(l, stops) ==
    CHOOSE j \in l.pos..(Len(l.text) + 1) :
        /\ j = Len(l.text) + 1 \/ SubSeq(l.text, j, j) \in stops
        /\ \A k \in l.pos..(j - 1) : SubSeq(l.text, k, k) \notin stops

\* The same for the loops that run up to the two runes that close a block
\* comment: the position of the star, or the end of the text.
ScanToCommentEnd(l) ==
    CHOOSE j \in l.pos..(Len(l.text) + 1) :
        /\ j = Len(l.text) + 1 \/ (j < Len(l.text) /\ SubSeq(l.text, j, j + 1) = "*/")
        /\ \A k \in l.pos..(j - 1) :
              ~(k < Len(l.text) /\ SubSeq(l.text, k, k + 1) = "*/")

\* the runes of the text from the lexer's position up to position j
Scanned(l, j) == [l |-> [l EXCEPT !.pos = j], value |-> SubSeq(l.text, l.pos, j - 1)]

\* skipWhitespace
skipWhitespace(l) == [l EXCEPT !.pos = ScanWhile(l, {" ", "\t", "\n", "\r"})]

\* `for l.currentChar != nil && *l.currentChar != '\n' { l.advance() }`
skipLine(l) == [l EXCEPT !.pos = ScanUntil(l, {"\n"})]

\* the loop of skipComment over the body of a block comment; the two
\* closing runes are skipped when they are there
skipBlock(l) ==
    LET j == ScanToCommentEnd(l)
    IN  [l EXCEPT !.pos = IF j <= Len(l.text) THEN j + 2 ELSE j]

\* skipComment: [l, skipped]
skipComment(l) ==
    IF currentChar(l) = Nil THEN [l |-> l, skipped |-> FALSE]
    ELSE IF currentChar(l) = Ptr("-") /\ MySQLLexer_peek(l, 1) = Ptr("-")
    THEN [l |-> skipLine(MySQLLexer_advance(MySQLLexer_advance(l))), skipped |-> TRUE]
    ELSE IF currentChar(l) = Ptr("#")
    THEN [l |-> skipLine(l), skipped |-> TRUE]
    ELSE IF currentChar(l) = Ptr("/") /\ MySQLLexer_peek(l, 1) = Ptr("*")
    THEN [l |-> skipBlock(MySQLLexer_advance(MySQLLexer_advance(l))), skipped |-> TRUE]
    ELSE [l |-> l, skipped |-> FALSE]

\* readMySQLDirective: [l, value]
readMySQLDirective(l) ==
    LET j == ScanToCommentEnd(l)
    IN  [l |-> [l EXCEPT !.pos = IF j <= Len(l.text) THEN j + 2 ELSE j],
         value |-> SubSeq(l.text, l.pos, j - 1)]

\* The turns of the loop of readString up to the next backslash: a backslash
\* is dropped and the rune after it taken whatever it is, the runes up to
\* the next backslash, the closing quote or the end of the text are taken.
readStringStep(s, quote) ==
    IF currentChar(s.l) = Ptr("\\")
    THEN LET l1 == MySQLLexer_advance(s.l)
         IN  IF currentChar(l1) # Nil
             THEN [l |-> MySQLLexer_advance(l1),
                   value |-> s.value \o Deref(currentChar(l1))]
             ELSE [l |-> l1, value |-> s.value]
    ELSE LET j == ScanUntil(s.l, {quote, "\\"})
         IN  [l |-> [s.l EXCEPT !.pos = j],
              value |-> s.value \o SubSeq(s.l.text, s.l.pos, j - 1)]

\* the loop of readString, `for l.currentChar != nil && *l.currentChar != quote`
RECURSIVE readStringLoop(_, _)
readStringLoop(s, quote) ==
    IF currentChar(s.l) = Nil \/ currentChar(s.l) = Ptr(quote) THEN s
    ELSE With(readStringStep(s, quote), LAMBDA s1 : readStringLoop(s1, quote))

\* readString reads quoted strings: [l, value], the value without the
\* opening and the closing quote
readString(l) ==
    With(readStringLoop([l |-> MySQLLexer_advance(l), value |-> ""],
                        Deref(currentChar(l))),
         LAMBDA s :
           IF currentChar(s.l) = currentChar(l)
           THEN [s EXCEPT !.l = MySQLLexer_advance(s.l)]
           ELSE s)

\* readNumber: [l, value]
readNumber(l) ==
    Scanned(l, ScanWhile(l, {"0", "1", "2", "3", "4", "5", "6", "7", "8", "9", "."}))

\* the runes readIdentifier goes on with
IdentifierRunes ==
    {SubSeq(UpperLetters, i, i) : i \in 1..26} \cup
    {SubSeq(LowerLetters, i, i) : i \in 1..26} \cup
    {"0", "1", "2", "3", "4", "5", "6", "7", "8", "9", "_", "$"}

\* readIdentifier: [l, value]
readIdentifier(l) == Scanned(l, ScanWhile(l, IdentifierRunes))

\* readQuotedIdentifier: [l, value], the closing quote skipped when there
readQuotedIdentifier(l) ==
    LET j == ScanUntil(MySQLLexer_advance(l), {Backtick})
    IN  [l |-> [l EXCEPT !.pos = IF j <= Len(l.text) THEN j + 1 ELSE j],
         value |-> SubSeq(l.text, l.pos + 1, j - 1)]

\* a token of the given type whose value a read* function returned
ReadToken(type, s) == [l |-> s.l, token |-> Tok(type, s.value)]

\* GetNextToken returns the next token from the input: [l, token]
RECURSIVE GetNextToken(_)
GetNextToken(l) ==
    IF currentChar(l) = Nil THEN [l |-> l, token |-> EOFToken]
    ELSE IF IsSpace(Deref(currentChar(l)))
    THEN With(skipWhitespace(l), LAMBDA l1 : GetNextToken(l1))
    ELSE With(skipComment(l),
      LAMBDA sc :
        IF sc.skipped THEN GetNextToken(sc.l)
        ELSE LET c == Deref(currentChar(l))
             IN  IF c = "/" /\ MySQLLexer_peek(l, 1) = Ptr("*")
                            /\ MySQLLexer_peek(l, 2) = Ptr("!")
                 THEN ReadToken("MYSQL_DIRECTIVE", readMySQLDirective(l))
                 ELSE IF c = "\"" \/ c = "'"
                 THEN ReadToken("STRING", readString(l))
                 ELSE IF c = Backtick
                 THEN ReadToken("IDENTIFIER", readQuotedIdentifier(l))
                 ELSE IF IsDigit(c)
                 THEN ReadToken("NUMBER", readNumber(l))
                 ELSE IF IsLetter(c) \/ c = "_"
                 THEN With(readIdentifier(l),
                        LAMBDA s :
                          ReadToken(IF \E kw \in keywords : IsToUpper(s.value, kw)
                                    THEN CHOOSE kw \in keywords : IsToUpper(s.value, kw)
                                    ELSE "IDENTIFIER", s))
                 ELSE IF charTokens(c) # ""
                 THEN [l |-> MySQLLexer_advance(l), token |-> Tok(charTokens(c), c)]
                 ELSE With(MySQLLexer_advance(l), LAMBDA l1 : GetNextToken(l1)))

\* the exit test of `Tokenize` made on STRING tokens as well
TokenizeStep_stopAtString(s) ==
    With(GetNextToken(s.l),
         LAMBDA r : [l |-> r.l, tokens |-> Append(s.tokens, r.token),
                     done |-> r.token.Type \in {"EOF", "STRING"}])

\* One turn of the loop of Tokenize: the next token is appended, and the
\* EOF token ends the loop.
TokenizeStep(s) ==
    With(GetNextToken(s.l),
         LAMBDA r : [l |-> r.l, tokens |-> Append(s.tokens, r.token),
                     done |-> r.token.Type = "EOF"])

RECURSIVE TokenizeLoop(_)
TokenizeLoop(s) ==
    IF s.done THEN s.tokens
    ELSE With(TokenizeStep(s), LAMBDA s1 : TokenizeLoop(s1))

\* NewMySQLLexer(text).Tokenize()
Tokenize(text) ==
    TokenizeLoop([l |-> NewMySQLLexer(text), tokens |-> <<>>, done |-> FALSE])

\* NewMySQLCreateTableParser
NewMySQLCreateTableParser(tokens) == [tokens |-> tokens, pos |-> 1]

\* p.currentToken
currentToken(p) == IF p.pos <= Len(p.tokens) THEN p.tokens[p.pos] ELSE EOFToken

\* advance moves to the next token
advance(p) == [p EXCEPT !.pos = @ + 1]

\* match checks if current token matches any of the given types
match(p, tokenTypes) == currentToken(p).Type \in tokenTypes

\* the token types parseDataType accepts as a type name
DataTypeTokens ==
    {"INT", "TINYINT", "SMALLINT", "MEDIUMINT", "BIGINT", "VARCHAR", "CHAR", "TEXT",
     "DECIMAL", "FLOAT", "DOUBLE", "DATE", "DATETIME", "TIMESTAMP", "TIME", "YEAR",
     "BLOB", "JSON", "ENUM", "SET", "BINARY", "VARBINARY", "BIT", "BOOLEAN",
     "GEOMETRY", "POINT", "LINESTRING", "POLYGON"}

\* isKeywordUsableAsIdentifier
isKeywordUsableAsIdentifier(p) ==
    match(p, {"DATA", "DIRECTORY", "COMPRESSION", "ENCRYPTION", "TABLESPACE",
              "STATS_PERSISTENT", "STATS_AUTO_RECALC", "STATS_SAMPLE_PAGES",
              "PACK_KEYS", "CHECKSUM", "DELAY_KEY_WRITE", "MEMORY", "DISK",
              "FIXED", "DYNAMIC", "COMPRESSED", "FIRST", "LAST", "ACTION"})

\* The parameter loop of parseDataType, `for !p.match(RPAREN) { ... }`:
\* the parser and the parameters when the loop is left.
RECURSIVE parseDataTypeParams(_, _)
parseDataTypeParams(p, params) ==
    IF match(p, {"RPAREN"}) THEN [p |-> p, params |-> params]
    ELSE LET took == match(p, {"NUMBER", "STRING", "IDENTIFIER"})
             p1 == IF took THEN advance(p) ELSE p
             params1 == IF took THEN Append(params, currentToken(p).Value) ELSE params
         IN  With([p |-> p1, params |-> params1],
                  LAMBDA s : IF match(s.p, {"COMMA"})
                             THEN parseDataTypeParams(advance(s.p), s.params)
                             ELSE s)

EmptyDataType == [Name |-> "", Parameters |-> <<>>, Unsigned |-> FALSE, Zerofill |-> FALSE]

\* parseDataType once the type name is read and the parameter loop is left
\* at lp: the closing parenthesis, UNSIGNED and ZEROFILL
parseDataTypeTail(name, hasParams, lp) ==
    LET closed == ~hasParams \/ match(lp.p, {"RPAREN"})
        p2 == IF hasParams /\ closed THEN advance(lp.p) ELSE lp.p
        unsigned == match(p2, {"UNSIGNED"})
        p3 == IF unsigned THEN advance(p2) ELSE p2
        zerofill == match(p3, {"ZEROFILL"})
        p4 == IF zerofill THEN advance(p3) ELSE p3
    IN  IF ~closed
        THEN [p |-> lp.p,
              dataType |-> [EmptyDataType EXCEPT !.Name = name,
                                                 !.Parameters = lp.params],
              err |-> TRUE]
        ELSE [p |-> p4,
              dataType |-> [Name |-> name, Parameters |-> lp.params,
                            Unsigned |-> unsigned, Zerofill |-> zerofill],
              err |-> FALSE]

\* parseDataType parses a data type definition: [p, dataType, err]
parseDataType(p) ==
    IF ~match(p, DataTypeTokens)
    THEN [p |-> p, dataType |-> EmptyDataType, err |-> TRUE]
    ELSE With(IF match(advance(p), {"LPAREN"})
              THEN parseDataTypeParams(advance(advance(p)), <<>>)
              ELSE [p |-> advance(p), params |-> <<>>],
              LAMBDA lp : parseDataTypeTail(currentToken(p).Value,
                                            match(advance(p), {"LPAREN"}), lp))

\* ColumnDefinition{Name: name, DataType: dataType}
NewColumn(name, dataType) ==
    [Name |-> name, DataType |-> dataType, Nullable |-> Nil, DefaultValue |-> Nil,
     AutoIncrement |-> FALSE, Unique |-> FALSE, PrimaryKey |-> FALSE,
     Comment |-> Nil, Collation |-> Nil, CharacterSet |-> Nil, Visible |-> Nil,
     Generated |-> Nil, ColumnFormat |-> Nil, Storage |-> Nil, Reference |-> Nil]

\* strings.TrimSpace(expr), expr being every value followed by one " "
TrimSpaceOfParts(parts) == Join(parts, " ")

\* The expression loop of a GENERATED ... AS ( ... ) clause,
\* `for parenCount > 0 && !p.match(EOF)`: the parser and the tokens' values.
parseGeneratedExpr(p, parenCount, parts) ==
    LET last == Len(p.tokens)
        \* parenCount after the turns for the tokens p.pos..j
        count(j) == parenCount
                      + Cardinality({k \in p.pos..j : p.tokens[k].Type = "LPAREN"})
                      - Cardinality({k \in p.pos..j : p.tokens[k].Type = "RPAREN"})
        \* the loop ends before the token at j
        ends(j) == \/ count(j - 1) <= 0
                   \/ j > last
                   \/ p.tokens[j].Type = "EOF"
        end == CHOOSE j \in p.pos..(last + 1) :
                   ends(j) /\ \A k \in p.pos..(j - 1) : ~ends(k)
        kept == SelectSeq([i \in 1..(end - p.pos) |-> p.pos + i - 1],
                          LAMBDA k : count(k) > 0)
    IN  IF p.pos > last THEN [p |-> p, parts |-> parts]
        ELSE [p |-> [p EXCEPT !.pos = end],
              parts |-> parts \o [i \in DOMAIN kept |-> p.tokens[kept[i]].Value]]

\* One turn of the attribute loop of parseColumnDefinition: [p, column]
parseColumnAttribute(p, column) ==
    IF match(p, {"NOT"})
    THEN LET p1 == advance(p)
         IN  IF match(p1, {"NULL"})
             THEN [p |-> advance(p1), column |-> [column EXCEPT !.Nullable = Ptr(FALSE)]]
             ELSE [p |-> p1, column |-> column]
    ELSE IF match(p, {"NULL"})
    THEN [p |-> advance(p), column |-> [column EXCEPT !.Nullable = Ptr(TRUE)]]
    ELSE IF match(p, {"DEFAULT"})
    THEN LET p1 == advance(p)
         IN  IF match(p1, {"STRING", "NUMBER", "NULL", "TRUE", "FALSE", "IDENTIFIER"})
             THEN [p |-> advance(p1),
                   column |-> [column EXCEPT !.DefaultValue = Ptr(currentToken(p1).Value)]]
             ELSE [p |-> p1, column |-> [column EXCEPT !.DefaultValue = Ptr("")]]
    ELSE IF match(p, {"AUTO_INCREMENT"})
    THEN [p |-> advance(p), column |-> [column EXCEPT !.AutoIncrement = TRUE]]
    ELSE IF match(p, {"UNIQUE"})
    THEN [p |-> advance(p), column |-> [column EXCEPT !.Unique = TRUE]]
    ELSE IF match(p, {"PRIMARY"})
    THEN LET p1 == advance(p)
         IN  [p |-> IF match(p1, {"KEY"}) THEN advance(p1) ELSE p1,
              column |-> [column EXCEPT !.PrimaryKey = TRUE]]
    ELSE IF match(p, {"COMMENT"})
    THEN LET p1 == advance(p)
         IN  IF match(p1, {"STRING"})
             THEN [p |-> advance(p1),
                   column |-> [column EXCEPT !.Comment = Ptr(currentToken(p1).Value)]]
             ELSE [p |-> p1, column |-> column]
    ELSE IF match(p, {"COLLATE"})
    THEN LET p1 == advance(p)
         IN  IF match(p1, {"IDENTIFIER"})
             THEN [p |-> advance(p1),
                   column |-> [column EXCEPT !.Collation = Ptr(currentToken(p1).Value)]]
             ELSE [p |-> p1, column |-> column]
    ELSE IF match(p, {"CHARACTER"})
    THEN LET p1 == advance(p)
             p2 == advance(p1)
         IN  IF ~match(p1, {"SET"}) THEN [p |-> p1, column |-> column]
             ELSE IF match(p2, {"IDENTIFIER"})
             THEN [p |-> advance(p2),
                   column |-> [column EXCEPT !.CharacterSet = Ptr(currentToken(p2).Value)]]
             ELSE [p |-> p2, column |-> column]
    ELSE IF match(p, {"GENERATED"})
    THEN LET p1 == advance(p)
             p2 == IF match(p1, {"ALWAYS"}) THEN advance(p1) ELSE p1
             hasAs == match(p2, {"AS"})
             p3 == IF hasAs THEN advance(p2) ELSE p2
             hasExpr == hasAs /\ match(p3, {"LPAREN"})
         IN  With(IF hasExpr THEN parseGeneratedExpr(advance(p3), 1, <<>>)
                  ELSE [p |-> p3, parts |-> <<>>],
                  LAMBDA ex :
                    [p |-> IF match(ex.p, {"VIRTUAL", "STORED"})
                           THEN advance(ex.p) ELSE ex.p,
                     column |-> [column EXCEPT !.Generated =
                        Ptr([Expression |-> TrimSpaceOfParts(ex.parts),
                             Type |-> IF match(ex.p, {"STORED"})
                                      THEN "STORED" ELSE "VIRTUAL"])]])
    ELSE IF match(p, {"VISIBLE"})
    THEN [p |-> advance(p), column |-> [column EXCEPT !.Visible = Ptr(TRUE)]]
    ELSE IF match(p, {"INVISIBLE"})
    THEN [p |-> advance(p), column |-> [column EXCEPT !.Visible = Ptr(FALSE)]]
    ELSE IF match(p, {"ON"})
    THEN LET p1 == advance(p)
             p2 == advance(p1)
         IN  IF ~match(p1, {"UPDATE"}) THEN [p |-> p1, column |-> column]
             ELSE [p |-> IF match(p2, {"IDENTIFIER"}) THEN advance(p2) ELSE p2,
                   column |-> column]
    ELSE [p |-> advance(p), column |-> column]

\* an attribute loop that ends after a COMMENT clause
RECURSIVE parseColumnAttributes_endAtComment(_, _)
parseColumnAttributes_endAtComment(p, column) ==
    IF match(p, {"COMMA", "RPAREN", "EOF"}) THEN [p |-> p, column |-> column]
    ELSE With(parseColumnAttribute(p, column),
              LAMBDA r : IF match(p, {"COMMENT"}) THEN r
                         ELSE parseColumnAttributes_endAtComment(r.p, r.column))

\* The attribute loop of parseColumnDefinition, `for !p.match(COMMA, RPAREN, EOF)`
RECURSIVE parseColumnAttributes(_, _)
parseColumnAttributes(p, column) ==
    IF match(p, {"COMMA", "RPAREN", "EOF"}) THEN [p |-> p, column |-> column]
    ELSE With(parseColumnAttribute(p, column),
              LAMBDA r : parseColumnAttributes(r.p, r.column))

\* parseColumnDefinition once the name is read and parseDataType returned dt
parseColumnDefinitionTail(name, dt) ==
    IF dt.err
    THEN [p |-> dt.p, column |-> NewColumn("", EmptyDataType), err |-> TRUE]
    ELSE With(parseColumnAttributes(dt.p, NewColumn(name, dt.dataType)),
              LAMBDA r : [p |-> r.p, column |-> r.column, err |-> FALSE])

\* parseColumnDefinition parses a column definition: [p, column, err]
parseColumnDefinition(p) ==
    IF ~(match(p, {"IDENTIFIER"}) \/ isKeywordUsableAsIdentifier(p))
    THEN [p |-> p, column |-> NewColumn("", EmptyDataType), err |-> TRUE]
    ELSE With(parseDataType(advance(p)),
              LAMBDA dt : parseColumnDefinitionTail(currentToken(p).Value, dt))

-----------------------------------------------------------------------------
(* Inputs: the table definitions the analyzer is run on *)

MaxOldColumns == 2
MaxNewColumns == 3
MaxIndexes == 2
MaxForeignKeys == 2
MaxTypeParams == 2
MaxAttributes == 2

SeqsUpTo(S, n) == UNION {[1..k -> S] : k \in 0..n}

\* createTestColumn(name, dataType)
createTestColumn(name, dataType) ==
    NewColumn(name, [EmptyDataType EXCEPT !.Name = dataType])

\* &parser.CreateTableStatement{TableName: name, Columns: columns}
createTestTable(name, columns) ==
    Ptr([TableName |-> name, Temporary |-> FALSE, IfNotExists |-> FALSE,
         Columns |-> columns, Indexes |-> <<>>, PrimaryKey |-> Nil,
         ForeignKeys |-> <<>>, CheckConstraints |-> <<>>,
         TableOptions |-> Nil, PartitionOptions |-> Nil])

VarcharColumn(name, size) ==
    NewColumn(name, [EmptyDataType EXCEPT !.Name = "VARCHAR", !.Parameters = <<size>>])

\* The columns of the tables compared: id, name and email, each in two forms.
ColumnPool ==
    {createTestColumn("id", "INT"),
     [createTestColumn("id", "INT") EXCEPT !.AutoIncrement = TRUE],
     VarcharColumn("name", "100"),
     VarcharColumn("name", "255"),
     VarcharColumn("email", "255")}

\* parser.IndexColumn{Name: name}
IndexColumn(name) == [Name |-> name, Length |-> Nil, Direction |-> Nil]

\* parser.IndexDefinition{Name: name, IndexType: type, Columns: columns}
IndexDefinition(name, type, columns) ==
    [Name |-> name, IndexType |-> type, Columns |-> columns, KeyBlockSize |-> Nil,
     Using |-> Nil, Comment |-> Nil, Visible |-> Nil, Parser |-> Nil,
     Algorithm |-> Nil, Lock |-> Nil, EngineAttribute |-> Nil]

IdxAB == IndexDefinition(Ptr("idx"), "INDEX", <<IndexColumn("a"), IndexColumn("b")>>)

\* The indexes of the tables compared: an index on (a, b), the same index
\* with a comment and a prefix length, the same index renamed, an index
\* `idx:a` on (b), and an unnamed UNIQUE index.
IndexPool ==
    {IdxAB,
     [IdxAB EXCEPT !.Comment = Ptr("c"),
                   !.Columns = <<[IndexColumn("a") EXCEPT !.Length = Ptr(10)],
                                 IndexColumn("b")>>],
     [IdxAB EXCEPT !.Name = Ptr("idx2")],
     IndexDefinition(Ptr("idx:a"), "INDEX", <<IndexColumn("b")>>),
     IndexDefinition(Nil, "UNIQUE", <<IndexColumn("b")>>)}

\* parser.ForeignKeyDefinition
ForeignKeyDefinition(name, columns, refTable, refColumns, onDelete, onUpdate) ==
    [Name |-> name, Columns |-> columns,
     Reference |-> [TableName |-> refTable, Columns |-> refColumns,
                    OnDelete |-> onDelete, OnUpdate |-> onUpdate]]

\* The foreign keys of the tables compared: fk (a, b) -> roles (id) with no
\* action, with ON DELETE, with ON DELETE and ON UPDATE, a foreign key
\* `fk:a` (b) -> roles (id), and an unnamed one.
ForeignKeyPool ==
    {ForeignKeyDefinition(Ptr("fk"), <<"a", "b">>, "roles", <<"id">>, Nil, Nil),
     ForeignKeyDefinition(Ptr("fk"), <<"a", "b">>, "roles", <<"id">>, Ptr("CASCADE"), Nil),
     ForeignKeyDefinition(Ptr("fk"), <<"a", "b">>, "roles", <<"id">>, Ptr("CASCADE"),
                          Ptr("RESTRICT")),
     ForeignKeyDefinition(Ptr("fk:a"), <<"b">>, "roles", <<"id">>, Nil, Nil),
     ForeignKeyDefinition(Nil, <<"a">>, "users", <<"id">>, Nil, Nil)}

\* parser.PrimaryKeyDefinition{Columns: columns, Using: using}
PrimaryKeyDefinition(columns, using) ==
    [Columns |-> columns, Name |-> Nil, Using |-> using, Comment |-> Nil]

PrimaryKeyPool ==
    {Nil,
     Ptr(PrimaryKeyDefinition(<<IndexColumn("id")>>, Nil)),
     Ptr(PrimaryKeyDefinition(<<IndexColumn("id"), IndexColumn("tenant_id")>>, Nil)),
     Ptr(PrimaryKeyDefinition(<<IndexColumn("id")>>, Ptr("BTREE")))}

\* &parser.TableOptions{}
EmptyTableOptions ==
    [Engine |-> Nil, AutoIncrement |-> Nil, CharacterSet |-> Nil, Collate |-> Nil,
     Comment |-> Nil, RowFormat |-> Nil, KeyBlockSize |-> Nil, MaxRows |-> Nil,
     MinRows |-> Nil, Tablespace |-> Nil, DataDirectory |-> Nil,
     IndexDirectory |-> Nil, Encryption |-> Nil, Compression |-> Nil,
     StatsPersistent |-> Nil, StatsAutoRecalc |-> Nil, StatsSamplePages |-> Nil,
     PackKeys |-> Nil, Checksum |-> Nil, DelayKeyWrite |-> Nil, Union |-> <<>>,
     InsertMethod |-> Nil]

TableOptionsPool ==
    {Nil,
     Ptr([EmptyTableOptions EXCEPT !.Engine = Ptr("InnoDB")]),
     Ptr([EmptyTableOptions EXCEPT !.Engine = Ptr("MyISAM"),
                                   !.CharacterSet = Ptr("latin1")]),
     Ptr([EmptyTableOptions EXCEPT !.Engine = Ptr("InnoDB"),
                                   !.RowFormat = Ptr("DYNAMIC")]),
     Ptr([EmptyTableOptions EXCEPT !.Engine = Ptr("InnoDB"),
                                   !.AutoIncrement = Ptr(10)])}

\* the most options a table of LoadOptionTables sets
MaxTableOptions == 2

\* one table option set to a value: <<field, value>>
OptionSettings ==
    {<<"Engine", Ptr("InnoDB")>>, <<"Engine", Ptr("MyISAM")>>,
     <<"AutoIncrement", Ptr(10)>>, <<"CharacterSet", Ptr("utf8mb4")>>,
     <<"Collate", Ptr("utf8mb4_bin")>>, <<"Comment", Ptr("")>>,
     <<"Comment", Ptr("users")>>, <<"RowFormat", Ptr("DYNAMIC")>>,
     <<"KeyBlockSize", Ptr(8)>>, <<"Checksum", Ptr(1)>>}

\* &parser.TableOptions{...} with the given settings
RECURSIVE TableOptionsWith(_)
TableOptionsWith(settings) ==
    IF settings = {} THEN EmptyTableOptions
    ELSE LET s == CHOOSE s \in settings : TRUE
         IN  [TableOptionsWith(settings \ {s}) EXCEPT ![s[1]] = s[2]]

\* the option sets of up to MaxTableOptions options, each option set once
OptionSets ==
    {TableOptionsWith(settings) :
        settings \in {S \in SUBSET OptionSettings :
                         /\ Cardinality(S) <= MaxTableOptions
                         /\ \A s, t \in S : s[1] = t[1] => s = t}}

\* parser.PartitionDefinition{Name: name}
PartitionDefinition(name) ==
    [Name |-> name, Type |-> "", Expression |-> Nil, Values |-> <<>>,
     Comment |-> Nil, DataDirectory |-> Nil, IndexDirectory |-> Nil,
     MaxRows |-> Nil, MinRows |-> Nil, Tablespace |-> Nil]

\* parser.PartitionOptions
PartitionOptions(type, expression, count, partitions) ==
    [Type |-> type, Expression |-> expression, Columns |-> <<>>, Linear |-> FALSE,
     Partitions |-> partitions, PartitionCount |-> count]

PartitionPool ==
    {Nil,
     Ptr(PartitionOptions("HASH", Ptr("id"), Ptr(4), <<>>)),
     Ptr(PartitionOptions("RANGE", Ptr("id"), Nil,
                          <<PartitionDefinition("p0"), PartitionDefinition("p1")>>))}

TableNames == {"users", "accounts"}

\* A table with every component present.
FullTable(name, pk, opts, part) ==
    Ptr([Deref(createTestTable(name, <<createTestColumn("id", "INT")>>)) EXCEPT
           !.Indexes = <<IdxAB>>,
           !.PrimaryKey = pk,
           !.ForeignKeys = <<ForeignKeyDefinition(Ptr("fk"), <<"a", "b">>, "roles",
                                                  <<"id">>, Nil, Nil)>>,
           !.TableOptions = opts,
           !.PartitionOptions = part])

\* The tables of TestNilTablesHandling, and a table with every component
NilCaseTables ==
    {Nil,
     createTestTable("test", <<createTestColumn("id", "INT")>>),
     FullTable("test", Nil, Nil, Nil)}

-----------------------------------------------------------------------------
(* Inputs: column declarations, as the token sequences the scanner hands on *)

Kw(word) == Tok(word, word)

RECURSIVE Flatten(_)
Flatten(seqs) == IF Len(seqs) = 0 THEN <<>> ELSE Head(seqs) \o Flatten(Tail(seqs))

\* p1 , p2 , ... as NUMBER and COMMA tokens
RECURSIVE ParamTokens(_)
ParamTokens(params) ==
    IF Len(params) = 0 THEN <<>>
    ELSE IF Len(params) = 1 THEN <<Tok("NUMBER", params[1])>>
    ELSE <<Tok("NUMBER", params[1]), Tok("COMMA", ",")>> \o ParamTokens(Tail(params))

\* NAME [( p1 , ... )] [UNSIGNED] [ZEROFILL]
TypeTokens(name, params, unsigned, zerofill) ==
    <<Kw(name)>>
    \o (IF Len(params) > 0
        THEN <<Tok("LPAREN", "(")>> \o ParamTokens(params) \o <<Tok("RPAREN", ")")>>
        ELSE <<>>)
    \o (IF unsigned THEN <<Kw("UNSIGNED")>> ELSE <<>>)
    \o (IF zerofill THEN <<Kw("ZEROFILL")>> ELSE <<>>)

\* `id` followed by a data type in every form
TypeDecls ==
    {<<Tok("IDENTIFIER", "id")>> \o TypeTokens(n, ps, u, z) :
        n \in {"INT", "DECIMAL"}, ps \in SeqsUpTo({"10", "2"}, MaxTypeParams),
        u \in BOOLEAN, z \in BOOLEAN}

AttributeClauses ==
    {<<Kw("NULL")>>,
     <<Kw("NOT"), Kw("NULL")>>,
     <<Kw("DEFAULT"), Kw("NULL")>>,
     <<Kw("DEFAULT"), Tok("STRING", "x")>>,
     <<Kw("AUTO_INCREMENT")>>}

\* `id INT` followed by attribute clauses
AttributeDecls ==
    {<<Tok("IDENTIFIER", "id"), Kw("INT")>> \o Flatten(cs) :
        cs \in SeqsUpTo(AttributeClauses, MaxAttributes)}

\* declarations the parser rejects: an unknown type, an unclosed parameter list
MalformedDecls ==
    {<<Tok("IDENTIFIER", "id"), Tok("IDENTIFIER", "SERIAL")>>,
     <<Tok("IDENTIFIER", "id"), Kw("DECIMAL"), Tok("LPAREN", "("), Tok("NUMBER", "10")>>}

ColumnDecls == TypeDecls \cup AttributeDecls \cup MalformedDecls

-----------------------------------------------------------------------------
(* pkg/parser: the table parser.  A parse function returns a record of the *)
(* parser after it, what it built, and err: TRUE for a syntax error.       *)

\* peek looks ahead at the next token(s)
peek(p, off) ==
    IF p.pos + off <= Len(p.tokens) THEN p.tokens[p.pos + off] ELSE EOFToken

\* a consume that moves the cursor also when the token is not the expected one
consume_always(p, tokenType) ==
    IF currentToken(p).Type = tokenType
    THEN [p |-> advance(p), token |-> currentToken(p), err |-> FALSE]
    ELSE [p |-> advance(p), token |-> Tok("", ""), err |-> TRUE]

\* consume expects and consumes a specific token type: [p, token, err]
consume(p, tokenType) ==
    IF currentToken(p).Type = tokenType
    THEN [p |-> advance(p), token |-> currentToken(p), err |-> FALSE]
    ELSE [p |-> p, token |-> Tok("", ""), err |-> TRUE]

\* a consume after the consumes before it: the first error ends the function
consumeNext(c, tokenType) == IF c.err THEN c ELSE consume(c.p, tokenType)

DigitChars == "0123456789"

RECURSIVE AtoiDigits(_, _)
AtoiDigits(s, n) ==
    IF Len(s) = 0 THEN n
    ELSE AtoiDigits(SubSeq(s, 2, Len(s)),
                    10 * n + (CHOOSE d \in 0..9 :
                                 SubSeq(DigitChars, d + 1, d + 1) = SubSeq(s, 1, 1)))

\* strconv.Atoi on the value of a token: a pointer to the number, or nil
\* where Atoi returns an error
Atoi(s) ==
    IF Len(s) = 0 \/ \E i \in 1..Len(s) : ~IsDigit(SubSeq(s, i, i))
    THEN Nil ELSE Ptr(AtoiDigits(s, 0))

\* The column loop of parsePrimaryKey, parseIndex and parseUniqueIndex,
\* `for !p.match(RPAREN)`: a name, an optional (length), an optional
\* direction, then a comma or the end of the loop.  [p, columns, err]
RECURSIVE parseIndexColumns(_, _)
parseIndexColumns(p, columns) ==
    IF match(p, {"RPAREN"}) THEN [p |-> p, columns |-> columns, err |-> FALSE]
    ELSE LET c == consume(p, "IDENTIFIER")
             hasLength == match(c.p, {"LPAREN"})
             p2 == IF hasLength THEN advance(c.p) ELSE c.p
             hasNumber == hasLength /\ match(p2, {"NUMBER"})
             c3 == consume(IF hasNumber THEN advance(p2) ELSE p2, "RPAREN")
             p4 == IF hasLength THEN c3.p ELSE c.p
             p5 == IF match(p4, {"ASC", "DESC"}) THEN advance(p4) ELSE p4
             indexCol == [Name |-> c.token.Value,
                          Length |-> IF hasNumber THEN Atoi(currentToken(p2).Value)
                                     ELSE Nil,
                          Direction |-> IF match(p4, {"ASC"}) THEN Ptr("ASC")
                                        ELSE IF match(p4, {"DESC"}) THEN Ptr("DESC")
                                        ELSE Nil]
         IN  IF c.err THEN [p |-> c.p, columns |-> columns, err |-> TRUE]
             ELSE IF hasLength /\ c3.err
             THEN [p |-> c3.p, columns |-> columns, err |-> TRUE]
             ELSE With([p |-> IF match(p5, {"COMMA"}) THEN advance(p5) ELSE p5,
                        columns |-> Append(columns, indexCol),
                        more |-> match(p5, {"COMMA"})],
                       LAMBDA s : IF s.more THEN parseIndexColumns(s.p, s.columns)
                                  ELSE [p |-> s.p, columns |-> s.columns, err |-> FALSE])

\* The column loop of parseFulltextIndex, parseSpatialIndex and of the two
\* lists of parseForeignKey: names separated by commas.  [p, names, err]
RECURSIVE parseNames(_, _)
parseNames(p, names) ==
    IF match(p, {"RPAREN"}) THEN [p |-> p, names |-> names, err |-> FALSE]
    ELSE With(consume(p, "IDENTIFIER"),
           LAMBDA c :
             IF c.err THEN [p |-> c.p, names |-> names, err |-> TRUE]
             ELSE IF match(c.p, {"COMMA"})
             THEN parseNames(advance(c.p), Append(names, c.token.Value))
             ELSE [p |-> c.p, names |-> Append(names, c.token.Value), err |-> FALSE])

\* parsePrimaryKey parses a primary key definition: [p, primaryKey, err]
parsePrimaryKey(p) ==
    With(consumeNext(consumeNext(consume(p, "PRIMARY"), "KEY"), "LPAREN"),
      LAMBDA c :
        IF c.err THEN [p |-> c.p, primaryKey |-> Nil, err |-> TRUE]
        ELSE With(parseIndexColumns(c.p, <<>>),
               LAMBDA r :
                 IF r.err THEN [p |-> r.p, primaryKey |-> Nil, err |-> TRUE]
                 ELSE With(consume(r.p, "RPAREN"),
                        LAMBDA e :
                          [p |-> e.p,
                           primaryKey |-> IF e.err THEN Nil
                                          ELSE Ptr([Columns |-> r.columns, Name |-> Nil,
                                                    Using |-> Nil, Comment |-> Nil]),
                           err |-> e.err])))

\* What parseIndex, parseUniqueIndex, parseFulltextIndex and
\* parseSpatialIndex do after the keywords: an optional index name, then the
\* parenthesized column list.  [p, index, err]
parseIndexTail(p, indexType, withLength) ==
    LET named == match(p, {"IDENTIFIER"})
        name == IF named THEN Ptr(currentToken(p).Value) ELSE Nil
        c == consume(IF named THEN advance(p) ELSE p, "LPAREN")
        index == IndexDefinition(name, indexType, <<>>)
    IN  IF c.err THEN [p |-> c.p, index |-> index, err |-> TRUE]
        ELSE With(IF withLength THEN parseIndexColumns(c.p, <<>>)
                  ELSE With(parseNames(c.p, <<>>),
                            LAMBDA n : [p |-> n.p, err |-> n.err,
                                        columns |-> [i \in DOMAIN n.names |->
                                                        IndexColumn(n.names[i])]]),
               LAMBDA r :
                 IF r.err THEN [p |-> r.p, index |-> index, err |-> TRUE]
                 ELSE With(consume(r.p, "RPAREN"),
                        LAMBDA e :
                          [p |-> e.p,
                           index |-> [index EXCEPT !.Columns = r.columns],
                           err |-> e.err]))

\* parseIndex parses a regular index definition: INDEX, or else KEY
parseIndex(p) ==
    With(IF consume(p, "INDEX").err THEN consume(p, "KEY") ELSE consume(p, "INDEX"),
      LAMBDA c :
        IF c.err THEN [p |-> c.p, index |-> IndexDefinition(Nil, "INDEX", <<>>),
                       err |-> TRUE]
        ELSE parseIndexTail(c.p, "INDEX", TRUE))

\* the optional KEY or INDEX keyword after UNIQUE, FULLTEXT or SPATIAL
afterKeyword(p) == IF match(p, {"KEY", "INDEX"}) THEN advance(p) ELSE p

\* parseUniqueIndex parses a unique index definition
parseUniqueIndex(p) ==
    With(consume(p, "UNIQUE"),
      LAMBDA c :
        IF c.err THEN [p |-> c.p, index |-> IndexDefinition(Nil, "", <<>>), err |-> TRUE]
        ELSE parseIndexTail(afterKeyword(c.p), "UNIQUE", TRUE))

\* parseFulltextIndex parses a fulltext index definition
parseFulltextIndex(p) ==
    With(consume(p, "FULLTEXT"),
      LAMBDA c :
        IF c.err THEN [p |-> c.p, index |-> IndexDefinition(Nil, "", <<>>), err |-> TRUE]
        ELSE parseIndexTail(afterKeyword(c.p), "FULLTEXT", FALSE))

\* parseSpatialIndex parses a spatial index definition
parseSpatialIndex(p) ==
    With(consume(p, "SPATIAL"),
      LAMBDA c :
        IF c.err THEN [p |-> c.p, index |-> IndexDefinition(Nil, "", <<>>), err |-> TRUE]
        ELSE parseIndexTail(afterKeyword(c.p), "SPATIAL", FALSE))

\* The action after ON DELETE or ON UPDATE: CASCADE, RESTRICT, or the one
\* token SET_NULL; nil for any other token, which is then not consumed.
referenceAction(p) ==
    IF match(p, {"CASCADE"}) THEN Ptr("CASCADE")
    ELSE IF match(p, {"RESTRICT"}) THEN Ptr("RESTRICT")
    ELSE IF match(p, {"SET_NULL"}) THEN Ptr("SET NULL")
    ELSE Nil

\* `for p.match(ON)` of parseForeignKey: [p, fk]
RECURSIVE parseReferenceActions(_, _)
parseReferenceActions(p, fk) ==
    IF ~match(p, {"ON"}) THEN [p |-> p, fk |-> fk]
    ELSE LET p1 == advance(p)
             p2 == advance(p1)
             action == referenceAction(p2)
             p3 == IF action # Nil THEN advance(p2) ELSE p2
         IN  With(IF match(p1, {"DELETE"})
                  THEN [p |-> p3,
                        fk |-> IF action # Nil
                               THEN [fk EXCEPT !.Reference.OnDelete = action] ELSE fk]
                  ELSE IF match(p1, {"UPDATE"})
                  THEN [p |-> p3,
                        fk |-> IF action # Nil
                               THEN [fk EXCEPT !.Reference.OnUpdate = action] ELSE fk]
                  ELSE [p |-> p1, fk |-> fk],
                  LAMBDA s : parseReferenceActions(s.p, s.fk))

\* parseForeignKey from REFERENCES on, the local columns being read
parseForeignKeyReference(p, name, columns) ==
    LET c2 == consumeNext(consume(p, "REFERENCES"), "IDENTIFIER")
        c3 == consumeNext(c2, "LPAREN")
        fk == ForeignKeyDefinition(name, columns, "", <<>>, Nil, Nil)
    IN  IF c3.err THEN [p |-> c3.p, fk |-> fk, err |-> TRUE]
        ELSE With(parseNames(c3.p, <<>>),
               LAMBDA r :
                 IF r.err THEN [p |-> r.p, fk |-> fk, err |-> TRUE]
                 ELSE With(consume(r.p, "RPAREN"),
                        LAMBDA e :
                          IF e.err THEN [p |-> e.p, fk |-> fk, err |-> TRUE]
                          ELSE With(parseReferenceActions(
                                      e.p,
                                      ForeignKeyDefinition(name, columns, c2.token.Value,
                                                           r.names, Nil, Nil)),
                                    LAMBDA a : [p |-> a.p, fk |-> a.fk, err |-> FALSE])))

\* parseForeignKey parses a foreign key definition: [p, fk, err]
parseForeignKey(p) ==
    LET c2 == consumeNext(consume(p, "FOREIGN"), "KEY")
        named == ~c2.err /\ match(c2.p, {"IDENTIFIER"}) /\ peek(c2.p, 1).Type = "LPAREN"
        name == IF named THEN Ptr(currentToken(c2.p).Value) ELSE Nil
        c3 == IF c2.err THEN c2
              ELSE consume(IF named THEN advance(c2.p) ELSE c2.p, "LPAREN")
        none == ForeignKeyDefinition(Nil, <<>>, "", <<>>, Nil, Nil)
    IN  IF c3.err THEN [p |-> c3.p, fk |-> none, err |-> TRUE]
        ELSE With(parseNames(c3.p, <<>>),
               LAMBDA r :
                 IF r.err THEN [p |-> r.p, fk |-> none, err |-> TRUE]
                 ELSE With(consume(r.p, "RPAREN"),
                        LAMBDA e :
                          IF e.err THEN [p |-> e.p, fk |-> none, err |-> TRUE]
                          ELSE parseForeignKeyReference(e.p, name, r.names)))

\* parseCheckConstraint parses a check constraint; its expression loop is
\* the one of a generated column.  [p, check, err]
parseCheckConstraint(p) ==
    With(consumeNext(consume(p, "CHECK"), "LPAREN"),
      LAMBDA c :
        IF c.err
        THEN [p |-> c.p, check |-> [Name |-> Nil, Expression |-> "", Enforced |-> Nil],
              err |-> TRUE]
        ELSE With(parseGeneratedExpr(c.p, 1, <<>>),
               LAMBDA ex :
                 [p |-> ex.p,
                  check |-> [Name |-> Nil, Expression |-> TrimSpaceOfParts(ex.parts),
                             Enforced |-> Nil],
                  err |-> FALSE]))

\* `KEYWORD [=] value` of parseTableOptions: the parser after the optional
\* equals sign
afterEquals(p) == IF match(p, {"EQUALS"}) THEN advance(p) ELSE p

\* `for !p.match(tokenTypes) { p.advance() }`, EOF being one of tokenTypes:
\* the cursor at the first token of one of the types, or past the last token
skipTo(p, tokenTypes) ==
    IF match(p, tokenTypes) THEN p
    ELSE [p EXCEPT !.pos =
            CHOOSE j \in p.pos..(Len(p.tokens) + 1) :
              /\ j <= Len(p.tokens) => p.tokens[j].Type \in tokenTypes
              /\ \A k \in p.pos..(j - 1) : p.tokens[k].Type \notin tokenTypes]

\* the token types at which a table option starts
TableOptionKeywords ==
    {"ENGINE", "AUTO_INCREMENT", "DEFAULT", "CHARACTER", "COLLATE", "COMMENT"}

\* One turn of the loop of parseTableOptions: [p, options]
parseTableOption(p, options) ==
    LET p1 == advance(p)
        v == afterEquals(p1)
        w == afterEquals(advance(p1))
    IN  IF match(p, {"ENGINE"})
        THEN IF match(v, {"IDENTIFIER"})
             THEN [p |-> advance(v),
                   options |-> [options EXCEPT !.Engine = Ptr(currentToken(v).Value)]]
             ELSE [p |-> v, options |-> options]
        ELSE IF match(p, {"AUTO_INCREMENT"})
        THEN IF match(v, {"NUMBER"})
             THEN [p |-> advance(v),
                   options |-> IF Atoi(currentToken(v).Value) # Nil
                               THEN [options EXCEPT
                                       !.AutoIncrement = Atoi(currentToken(v).Value)]
                               ELSE options]
             ELSE [p |-> v, options |-> options]
        ELSE IF match(p, {"DEFAULT"})
        THEN IF ~match(p1, {"CHARSET"}) THEN [p |-> p1, options |-> options]
             ELSE IF match(w, {"IDENTIFIER"})
             THEN [p |-> advance(w),
                   options |-> [options EXCEPT
                                  !.CharacterSet = Ptr(currentToken(w).Value)]]
             ELSE [p |-> w, options |-> options]
        ELSE IF match(p, {"CHARACTER"})
        THEN IF ~match(p1, {"SET"}) THEN [p |-> p1, options |-> options]
             ELSE IF match(w, {"IDENTIFIER"})
             THEN [p |-> advance(w),
                   options |-> [options EXCEPT
                                  !.CharacterSet = Ptr(currentToken(w).Value)]]
             ELSE [p |-> w, options |-> options]
        ELSE IF match(p, {"COLLATE"})
        THEN IF match(v, {"IDENTIFIER"})
             THEN [p |-> advance(v),
                   options |-> [options EXCEPT !.Collate = Ptr(currentToken(v).Value)]]
             ELSE [p |-> v, options |-> options]
        ELSE IF match(p, {"COMMENT"})
        THEN IF match(v, {"STRING"})
             THEN [p |-> advance(v),
                   options |-> [options EXCEPT !.Comment = Ptr(currentToken(v).Value)]]
             ELSE [p |-> v, options |-> options]
        ELSE [p |-> p1, options |-> options]

\* parseTableOptions parses table options,
\* `for !p.match(EOF, SEMICOLON, PARTITION)`: [p, options]
\* a run of unknown options is skipped in one turn
RECURSIVE parseTableOptions(_, _)
parseTableOptions(p, options) ==
    IF match(p, {"EOF", "SEMICOLON", "PARTITION"}) THEN [p |-> p, options |-> options]
    ELSE IF ~match(p, TableOptionKeywords)
    THEN parseTableOptions(
           skipTo(p, TableOptionKeywords \cup {"EOF", "SEMICOLON", "PARTITION"}),
           options)
    ELSE With(parseTableOption(p, options),
              LAMBDA r : parseTableOptions(r.p, r.options))

\* parsePartitionOptions parses partition options (simplified):
\* [p, partitionOptions, err]
parsePartitionOptions(p) ==
    With(consumeNext(consume(p, "PARTITION"), "BY"),
      LAMBDA c :
        LET p1 == advance(c.p)
            type == IF match(c.p, {"HASH"}) THEN "HASH"
                    ELSE IF match(c.p, {"RANGE"}) THEN "RANGE" ELSE ""
            hashExpr == match(c.p, {"HASH"}) /\ match(p1, {"LPAREN"})
        IN  IF c.err THEN [p |-> c.p, partitionOptions |-> Nil, err |-> TRUE]
            ELSE With(IF hashExpr THEN consume(skipTo(advance(p1), {"RPAREN", "EOF"}),
                                               "RPAREN")
                      ELSE [p |-> IF type # "" THEN p1 ELSE c.p, err |-> FALSE],
                   LAMBDA e :
                     IF e.err THEN [p |-> e.p, partitionOptions |-> Nil, err |-> TRUE]
                     ELSE [p |-> skipTo(e.p, {"EOF", "SEMICOLON"}),
                           partitionOptions |->
                               Ptr(PartitionOptions(type, Nil, Nil, <<>>)),
                           err |-> FALSE]))

\* One turn of the loop of parseTableElements, from the optional
\* `CONSTRAINT name`, which is skipped, to the end of the element:
\* [p, stmt, err]
parseTableElement(p0, stmt) ==
    LET q == IF match(p0, {"CONSTRAINT"}) THEN advance(p0) ELSE p0
        p == IF match(p0, {"CONSTRAINT"}) /\ match(q, {"IDENTIFIER"})
             THEN advance(q) ELSE q
    IN  IF match(p, {"PRIMARY"})
        THEN With(parsePrimaryKey(p),
               LAMBDA r : [p |-> r.p, err |-> r.err,
                           stmt |-> IF r.err THEN stmt
                                    ELSE [stmt EXCEPT !.PrimaryKey = r.primaryKey]])
        ELSE IF match(p, {"UNIQUE", "INDEX", "KEY", "FULLTEXT", "SPATIAL"})
        THEN With(IF match(p, {"UNIQUE"}) THEN parseUniqueIndex(p)
                  ELSE IF match(p, {"INDEX", "KEY"}) THEN parseIndex(p)
                  ELSE IF match(p, {"FULLTEXT"}) THEN parseFulltextIndex(p)
                  ELSE parseSpatialIndex(p),
               LAMBDA r : [p |-> r.p, err |-> r.err,
                           stmt |-> IF r.err THEN stmt
                                    ELSE [stmt EXCEPT !.Indexes = Append(@, r.index)]])
        ELSE IF match(p, {"FOREIGN"})
        THEN With(parseForeignKey(p),
               LAMBDA r : [p |-> r.p, err |-> r.err,
                           stmt |-> IF r.err THEN stmt
                                    ELSE [stmt EXCEPT !.ForeignKeys = Append(@, r.fk)]])
        ELSE IF match(p, {"CHECK"})
        THEN With(parseCheckConstraint(p),
               LAMBDA r : [p |-> r.p, err |-> r.err,
                           stmt |-> IF r.err THEN stmt
                                    ELSE [stmt EXCEPT
                                            !.CheckConstraints = Append(@, r.check)]])
        ELSE With(parseColumnDefinition(p),
               LAMBDA r : [p |-> r.p, err |-> r.err,
                           stmt |-> IF r.err THEN stmt
                                    ELSE [stmt EXCEPT !.Columns = Append(@, r.column)]])

\* parseTableElements parses the elements inside the CREATE TABLE
\* parentheses, `for !p.match(RPAREN)`: [p, stmt, err]
RECURSIVE parseTableElements(_, _)
parseTableElements(p, stmt) ==
    IF match(p, {"RPAREN"}) THEN [p |-> p, stmt |-> stmt, err |-> FALSE]
    ELSE With(parseTableElement(p, stmt),
           LAMBDA r :
             IF r.err THEN r
             ELSE IF match(r.p, {"COMMA"})
             THEN With(advance(r.p), LAMBDA p1 : parseTableElements(p1, r.stmt))
             ELSE r)

\* parseCreateTable after the table elements: the table options and the
\* partition options.  [p, stmt, err]
parseCreateTableOptions(p, stmt) ==
    With(IF ~match(p, {"EOF", "SEMICOLON"})
         THEN With(parseTableOptions(p, EmptyTableOptions),
                   LAMBDA r : [p |-> r.p,
                               stmt |-> [stmt EXCEPT !.TableOptions = Ptr(r.options)]])
         ELSE [p |-> p, stmt |-> stmt],
      LAMBDA o :
        IF ~match(o.p, {"PARTITION"}) THEN [p |-> o.p, stmt |-> Ptr(o.stmt), err |-> FALSE]
        ELSE With(parsePartitionOptions(o.p),
               LAMBDA r :
                 IF r.err THEN [p |-> r.p, stmt |-> Nil, err |-> TRUE]
                 ELSE [p |-> r.p,
                       stmt |-> Ptr([o.stmt EXCEPT
                                       !.PartitionOptions = r.partitionOptions]),
                       err |-> FALSE]))

\* parseCreateTable parses a CREATE TABLE statement: [p, stmt, err], stmt a
\* pointer to the table definition, nil with an error
parseCreateTable(p) ==
    LET c1 == consume(p, "CREATE")
        temporary == ~c1.err /\ match(c1.p, {"TEMPORARY"})
        c2 == IF c1.err THEN c1
              ELSE consume(IF temporary THEN advance(c1.p) ELSE c1.p, "TABLE")
        ifNotExists == ~c2.err /\ match(c2.p, {"IF"})
        c4 == IF ifNotExists
              THEN consumeNext(consume(advance(c2.p), "NOT"), "EXISTS") ELSE c2
        c5 == consumeNext(c4, "IDENTIFIER")
        stmt == [Deref(createTestTable(c5.token.Value, <<>>))
                   EXCEPT !.Temporary = temporary, !.IfNotExists = ifNotExists]
    IN  IF c5.err THEN [p |-> c5.p, stmt |-> Nil, err |-> TRUE]
        ELSE IF ~match(c5.p, {"LPAREN"}) THEN parseCreateTableOptions(c5.p, stmt)
        ELSE With(parseTableElements(advance(c5.p), stmt),
               LAMBDA r :
                 IF r.err THEN [p |-> r.p, stmt |-> Nil, err |-> TRUE]
                 ELSE With(consume(r.p, "RPAREN"),
                        LAMBDA e :
                          IF e.err THEN [p |-> e.p, stmt |-> Nil, err |-> TRUE]
                          ELSE parseCreateTableOptions(e.p, r.stmt)))

\* Parse parses the tokens into a CREATE TABLE statement
Parse(p) == parseCreateTable(p)

\* isCreateTable of ParseSQLDump: CREATE TABLE or CREATE TEMPORARY TABLE
isCreateTable(tokens) ==
    /\ Len(tokens) >= 2
    /\ tokens[1].Type = "CREATE"
    /\ \/ tokens[2].Type = "TABLE"
       \/ tokens[2].Type = "TEMPORARY" /\ Len(tokens) >= 3 /\ tokens[3].Type = "TABLE"

\* parseTokens: the table, or nil when Parse returns an error
parseTokens(tokens) ==
    With(Parse(NewMySQLCreateTableParser(tokens)),
         LAMBDA r : IF r.err THEN Nil ELSE r.stmt)

\* a finishStatement that keeps the tokens of a statement that failed to parse
finishStatement_keepFailed(s) ==
    IF Len(s.currentTokens) = 0 THEN s
    ELSE IF ~isCreateTable(s.currentTokens) THEN [s EXCEPT !.currentTokens = <<>>]
    ELSE With(parseTokens(s.currentTokens),
           LAMBDA table :
             [tables |-> IF table # Nil THEN Append(s.tables, table) ELSE s.tables,
              currentTokens |-> IF table # Nil THEN <<>> ELSE s.currentTokens,
              handed |-> Append(s.handed, s.currentTokens)])

\* What ParseSQLDump does at the end of a statement: the tokens gathered
\* are parsed if they start a CREATE TABLE, the table is appended unless
\* parseTokens returned nil, and the gathering starts again.  handed keeps
\* the token sequences parseTokens was called with.
finishStatement(s) ==
    IF Len(s.currentTokens) = 0 THEN s
    ELSE IF ~isCreateTable(s.currentTokens) THEN [s EXCEPT !.currentTokens = <<>>]
    ELSE With(parseTokens(s.currentTokens),
           LAMBDA table :
             [tables |-> IF table # Nil THEN Append(s.tables, table) ELSE s.tables,
              currentTokens |-> <<>>,
              handed |-> Append(s.handed, s.currentTokens)])

\* a loop body that does not end the statement on a semicolon
processToken_noCloseOnSemicolon(s, token) ==
    IF token.Type \in {"MYSQL_DIRECTIVE", "SQL_COMMENT"} THEN s
    ELSE With(IF token.Type = "CREATE" THEN finishStatement(s) ELSE s,
           LAMBDA s1 :
             With(IF token.Type # "EOF"
                  THEN [s1 EXCEPT !.currentTokens = Append(@, token)] ELSE s1,
               LAMBDA s2 :
                 IF token.Type \in {"EOF"} THEN finishStatement(s2)
                 ELSE s2))

\* The body of `for _, token := range tokens` of ParseSQLDump
processToken(s, token) ==
    IF token.Type \in {"MYSQL_DIRECTIVE", "SQL_COMMENT"} THEN s
    ELSE With(IF token.Type = "CREATE" THEN finishStatement(s) ELSE s,
           LAMBDA s1 :
             With(IF token.Type # "EOF"
                  THEN [s1 EXCEPT !.currentTokens = Append(@, token)] ELSE s1,
               LAMBDA s2 :
                 IF token.Type \in {"SEMICOLON", "EOF"} THEN finishStatement(s2)
                 ELSE s2))

RECURSIVE processTokens(_, _, _)
processTokens(s, tokens, i) ==
    IF i > Len(tokens) THEN s
    ELSE With(processToken(s, tokens[i]),
              LAMBDA s1 : processTokens(s1, tokens, i + 1))

\* a return of ParseSQLDump that reports a statement the table parser
\* rejected
returnTables_reportRejected(s) ==
    [tables |-> s.tables,
     err |-> IF \E i \in DOMAIN s.handed : parseTokens(s.handed[i]) = Nil
             THEN Ptr("syntax error") ELSE Nil]

\* `return tables, nil` of ParseSQLDump: [tables, err]
returnTables(s) == [tables |-> s.tables, err |-> Nil]

\* ParseSQLDump parses a SQL dump containing multiple CREATE TABLE
\* statements: the tables, pointers to table definitions
ParseSQLDump(sql) ==
    With(Tokenize(sql),
      LAMBDA tokens :
        returnTables(
            finishStatement(processTokens([tables |-> <<>>, currentTokens |-> <<>>,
                                           handed |-> <<>>],
                                          tokens, 1))).tables)

-----------------------------------------------------------------------------
(* The state machine: load two table definitions, then compare them.        *)
(* outcome: "init", "loaded", "syntax_error", "compared" or "panic", and    *)
(* "generated" or "generator panic" after the ALTER statement generator.    *)

\* the locals of ParseSQLDump before its first statement
NoDump ==
    [lexer |-> NewMySQLLexer(""), tokens |-> <<>>, i |-> 1,
     currentTokens |-> <<>>, tables |-> <<>>, handed |-> <<>>, err |-> Nil]

Init ==
    /\ oldTable = Nil
    /\ newTable = Nil
    /\ diff = Nil
    /\ outcome = "init"
    /\ oldTokens = <<>>
    /\ newTokens = <<>>
    /\ statements = <<>>
    /\ dump = NoDump
    /\ parseResult = Nil
    /\ alterStatements = <<>>

-----------------------------------------------------------------------------
(* pkg/alter: the ALTER TABLE statement generator *)

\* fmt.Sprintf("`%s`", name)
Quoted(name) == Backtick \o name \o Backtick

\* `if cond { parts = append(parts, part) }`
Part(cond, part) == IF cond THEN <<part>> ELSE <<>>

\* ptr != nil && *ptr != ""
IsSet(ptr) == ptr # Nil /\ Deref(ptr) # ""

\* ptr != nil && *ptr > 0
IsPositive(ptr) == ptr # Nil /\ Deref(ptr) > 0

\* ptr != nil && *ptr != 0
IsNonZero(ptr) == ptr # Nil /\ Deref(ptr) # 0

\* *ptr of a pointer tested by IsSet, IsPositive or IsNonZero before
Value(ptr, default) == IF ptr = Nil THEN default ELSE Deref(ptr)

\* formatColumnDefinition
formatColumnDefinition(column) ==
    LET t == column.DataType
        dataType ==
            t.Name
            \o (IF Len(t.Parameters) > 0
                THEN "(" \o Join(t.Parameters, ",") \o ")" ELSE "")
            \o (IF t.Unsigned THEN " UNSIGNED" ELSE "")
            \o (IF t.Zerofill THEN " ZEROFILL" ELSE "")
        default == Value(column.DefaultValue, "")
        generated == Value(column.Generated, [Expression |-> "", Type |-> ""])
    IN  Join(<<Quoted(column.Name), dataType>>
             \o Part(IsSet(column.CharacterSet),
                     "CHARACTER SET " \o Value(column.CharacterSet, ""))
             \o Part(IsSet(column.Collation), "COLLATE " \o Value(column.Collation, ""))
             \o Part(column.Nullable # Nil,
                     IF Value(column.Nullable, FALSE) THEN "NULL" ELSE "NOT NULL")
             \o Part(column.AutoIncrement, "AUTO_INCREMENT")
             \o Part(column.Unique, "UNIQUE")
             \o Part(column.PrimaryKey, "PRIMARY KEY")
             \o Part(IsSet(column.DefaultValue),
                     IF IsToUpper(default, "CURRENT_TIMESTAMP") \/ IsToUpper(default, "NULL")
                     THEN "DEFAULT " \o default
                     ELSE "DEFAULT '" \o default \o "'")
             \o Part(column.Generated # Nil,
                     "GENERATED ALWAYS AS (" \o generated.Expression \o ") "
                     \o (IF generated.Type = "" THEN "VIRTUAL" ELSE generated.Type))
             \o Part(column.Visible # Nil,
                     IF Value(column.Visible, FALSE) THEN "VISIBLE" ELSE "INVISIBLE")
             \o Part(IsSet(column.Comment), "COMMENT '" \o Value(column.Comment, "") \o "'")
             \o Part(IsSet(column.ColumnFormat),
                     "COLUMN_FORMAT " \o Value(column.ColumnFormat, ""))
             \o Part(IsSet(column.Storage), "STORAGE " \o Value(column.Storage, "")),
             " ")

\* the clause of one column diff
columnClause(colDiff) ==
    CASE colDiff.ChangeType = "added" ->
            <<"ADD COLUMN " \o formatColumnDefinition(Deref(colDiff.NewColumn))>>
      [] colDiff.ChangeType = "removed" -> <<"DROP COLUMN " \o Quoted(colDiff.Name)>>
      [] colDiff.ChangeType = "modified" ->
            <<"MODIFY COLUMN " \o formatColumnDefinition(Deref(colDiff.NewColumn))>>
      [] OTHER -> <<>>

\* the clauses of a diff list, in the order of the list
Clauses(diffs, clause(_)) == Flatten([i \in DOMAIN diffs |-> clause(diffs[i])])

\* generateColumnChanges
generateColumnChanges(tableDiff) == Clauses(tableDiff.ColumnDiffs, columnClause)

\* the quoted names of index columns, joined by ", "
QuotedColumns(columns) ==
    Join([i \in DOMAIN columns |-> Quoted(columns[i].Name)], ", ")

\* the quoted names of a column-name list, joined by ", "
QuotedNames(names) == Join([i \in DOMAIN names |-> Quoted(names[i])], ", ")

\* formatPrimaryKeyDefinition
formatPrimaryKeyDefinition(pk) ==
    IF IsSet(pk.Name)
    THEN "CONSTRAINT " \o Quoted(Value(pk.Name, "")) \o " PRIMARY KEY ("
         \o QuotedColumns(pk.Columns) \o ")"
    ELSE "PRIMARY KEY (" \o QuotedColumns(pk.Columns) \o ")"

\* generatePrimaryKeyChanges
generatePrimaryKeyChanges(pkDiff) ==
    CASE pkDiff.ChangeType = "removed" -> <<"DROP PRIMARY KEY">>
      [] pkDiff.ChangeType = "added" ->
            <<"ADD " \o formatPrimaryKeyDefinition(Deref(pkDiff.NewPK))>>
      [] pkDiff.ChangeType = "modified" ->
            <<"DROP PRIMARY KEY", "ADD " \o formatPrimaryKeyDefinition(Deref(pkDiff.NewPK))>>
      [] OTHER -> <<>>

\* formatIndexDefinition
formatIndexDefinition(idx) ==
    LET colPart(col) ==
            Quoted(col.Name)
            \o (IF IsPositive(col.Length)
                THEN "(" \o ToString(Value(col.Length, 0)) \o ")" ELSE "")
            \o (IF IsSet(col.Direction) THEN " " \o Value(col.Direction, "") ELSE "")
        colParts == [i \in DOMAIN idx.Columns |-> colPart(idx.Columns[i])]
        options ==
            Part(IsSet(idx.Using), "USING " \o Value(idx.Using, ""))
            \o Part(IsPositive(idx.KeyBlockSize),
                    "KEY_BLOCK_SIZE=" \o ToString(Value(idx.KeyBlockSize, 0)))
            \o Part(IsSet(idx.Parser), "WITH PARSER " \o Value(idx.Parser, ""))
            \o Part(IsSet(idx.Comment), "COMMENT '" \o Value(idx.Comment, "") \o "'")
            \o Part(idx.Visible # Nil /\ ~Value(idx.Visible, TRUE), "INVISIBLE")
            \o Part(IsSet(idx.Algorithm), "ALGORITHM=" \o Value(idx.Algorithm, ""))
            \o Part(IsSet(idx.Lock), "LOCK=" \o Value(idx.Lock, ""))
            \o Part(IsSet(idx.EngineAttribute),
                    "ENGINE_ATTRIBUTE='" \o Value(idx.EngineAttribute, "") \o "'")
    IN  Join(<<CASE idx.IndexType = "UNIQUE" -> "UNIQUE INDEX"
                 [] idx.IndexType = "FULLTEXT" -> "FULLTEXT INDEX"
                 [] idx.IndexType = "SPATIAL" -> "SPATIAL INDEX"
                 [] OTHER -> "INDEX">>
             \o Part(IsSet(idx.Name), Quoted(Value(idx.Name, "")))
             \o <<"(" \o Join(colParts, ", ") \o ")">>
             \o Part(Len(options) > 0, Join(options, " ")),
             " ")

\* the clauses of one index diff
indexClauses(idxDiff) ==
    LET old == Value(idxDiff.OldIndex, IndexDefinition(Nil, "", <<>>))
        dropNamed == Part(IsSet(old.Name), "DROP INDEX " \o Quoted(Value(old.Name, "")))
    IN  CASE idxDiff.ChangeType = "removed" ->
                IF IsSet(old.Name) THEN dropNamed
                ELSE <<"DROP INDEX (" \o QuotedColumns(old.Columns) \o ")">>
          [] idxDiff.ChangeType = "added" ->
                <<"ADD " \o formatIndexDefinition(Deref(idxDiff.NewIndex))>>
          [] idxDiff.ChangeType = "modified" ->
                dropNamed \o <<"ADD " \o formatIndexDefinition(Deref(idxDiff.NewIndex))>>
          [] OTHER -> <<>>

\* generateIndexChanges
generateIndexChanges(tableDiff) == Clauses(tableDiff.IndexDiffs, indexClauses)

\* formatForeignKeyDefinition
formatForeignKeyDefinition(fk) ==
    Join(Part(IsSet(fk.Name), "CONSTRAINT " \o Quoted(Value(fk.Name, "")))
         \o <<"FOREIGN KEY (" \o QuotedNames(fk.Columns) \o ")",
              "REFERENCES " \o Quoted(fk.Reference.TableName)
              \o " (" \o QuotedNames(fk.Reference.Columns) \o ")">>
         \o Part(IsSet(fk.Reference.OnDelete),
                 "ON DELETE " \o Value(fk.Reference.OnDelete, ""))
         \o Part(IsSet(fk.Reference.OnUpdate),
                 "ON UPDATE " \o Value(fk.Reference.OnUpdate, "")),
         " ")

\* the clauses of one foreign-key diff
foreignKeyClauses(fkDiff) ==
    LET old == Value(fkDiff.OldFK, ForeignKeyDefinition(Nil, <<>>, "", <<>>, Nil, Nil))
        dropNamed ==
            Part(IsSet(old.Name), "DROP FOREIGN KEY " \o Quoted(Value(old.Name, "")))
    IN  CASE fkDiff.ChangeType = "removed" -> dropNamed
          [] fkDiff.ChangeType = "added" ->
                <<"ADD " \o formatForeignKeyDefinition(Deref(fkDiff.NewFK))>>
          [] fkDiff.ChangeType = "modified" ->
                dropNamed \o <<"ADD " \o formatForeignKeyDefinition(Deref(fkDiff.NewFK))>>
          [] OTHER -> <<>>

\* generateForeignKeyChanges
generateForeignKeyChanges(tableDiff) == Clauses(tableDiff.ForeignKeyDiffs, foreignKeyClauses)

\* generateTableOptionsChanges: "" when no statement is generated
generateTableOptionsChanges(tableName, optionsDiff) ==
    IF optionsDiff.ChangeType = "removed" THEN ""
    ELSE LET opts == Deref(optionsDiff.NewOptions)
             text(ptr) == Value(ptr, "")
             number(ptr) == ToString(Value(ptr, 0))
             options ==
                 Part(IsSet(opts.Engine), "ENGINE=" \o text(opts.Engine))
                 \o Part(IsPositive(opts.AutoIncrement),
                         "AUTO_INCREMENT=" \o number(opts.AutoIncrement))
                 \o Part(IsSet(opts.CharacterSet),
                         "DEFAULT CHARSET=" \o text(opts.CharacterSet))
                 \o Part(IsSet(opts.Collate), "COLLATE=" \o text(opts.Collate))
                 \o Part(IsSet(opts.Comment), "COMMENT='" \o text(opts.Comment) \o "'")
                 \o Part(IsSet(opts.RowFormat), "ROW_FORMAT=" \o text(opts.RowFormat))
                 \o Part(IsPositive(opts.KeyBlockSize),
                         "KEY_BLOCK_SIZE=" \o number(opts.KeyBlockSize))
                 \o Part(IsPositive(opts.MaxRows), "MAX_ROWS=" \o number(opts.MaxRows))
                 \o Part(IsPositive(opts.MinRows), "MIN_ROWS=" \o number(opts.MinRows))
                 \o Part(IsSet(opts.Compression),
                         "COMPRESSION='" \o text(opts.Compression) \o "'")
                 \o Part(IsSet(opts.Encryption),
                         "ENCRYPTION='" \o text(opts.Encryption) \o "'")
                 \o Part(IsNonZero(opts.StatsPersistent),
                         "STATS_PERSISTENT=" \o number(opts.StatsPersistent))
                 \o Part(IsNonZero(opts.StatsAutoRecalc),
                         "STATS_AUTO_RECALC=" \o number(opts.StatsAutoRecalc))
                 \o Part(IsPositive(opts.StatsSamplePages),
                         "STATS_SAMPLE_PAGES=" \o number(opts.StatsSamplePages))
                 \o Part(IsNonZero(opts.PackKeys), "PACK_KEYS=" \o number(opts.PackKeys))
                 \o Part(IsNonZero(opts.Checksum), "CHECKSUM=" \o number(opts.Checksum))
                 \o Part(IsNonZero(opts.DelayKeyWrite),
                         "DELAY_KEY_WRITE=" \o number(opts.DelayKeyWrite))
         IN  IF Len(options) > 0
             THEN "ALTER TABLE " \o Quoted(tableName) \o " " \o Join(options, " ") \o ";"
             ELSE ""

\* formatPartitionDefinition
formatPartitionDefinition(partitionOpts) ==
    LET partStr(partDef) ==
            "PARTITION " \o Quoted(partDef.Name)
            \o (IF Len(partDef.Values) > 0 /\ partDef.Type = "RANGE"
                THEN " VALUES LESS THAN (" \o Join(partDef.Values, ", ") \o ")"
                ELSE IF Len(partDef.Values) > 0 /\ partDef.Type = "LIST"
                THEN " VALUES IN (" \o Join(partDef.Values, ", ") \o ")"
                ELSE "")
        partDefs == [i \in DOMAIN partitionOpts.Partitions |->
                        partStr(partitionOpts.Partitions[i])]
    IN  Join(<<"PARTITION BY">>
             \o Part(partitionOpts.Linear, "LINEAR")
             \o <<partitionOpts.Type>>
             \o <<IF IsSet(partitionOpts.Expression)
                  THEN "(" \o Value(partitionOpts.Expression, "") \o ")"
                  ELSE IF Len(partitionOpts.Columns) > 0
                  THEN "COLUMNS(" \o QuotedNames(partitionOpts.Columns) \o ")"
                  ELSE "()">>
             \o Part(IsPositive(partitionOpts.PartitionCount),
                     "PARTITIONS " \o ToString(Value(partitionOpts.PartitionCount, 0)))
             \o (IF Len(partDefs) > 0
                 THEN <<"(", Join(partDefs, ", "), ")">> ELSE <<>>),
             " ")

\* generatePartitionChanges
generatePartitionChanges(tableName, partitionDiff) ==
    LET alter == "ALTER TABLE " \o Quoted(tableName) \o " "
    IN  CASE partitionDiff.ChangeType = "removed" -> alter \o "REMOVE PARTITIONING;"
          [] partitionDiff.ChangeType = "added" ->
                alter \o formatPartitionDefinition(Deref(partitionDiff.NewPartition)) \o ";"
          [] partitionDiff.ChangeType = "modified" ->
                alter \o "REMOVE PARTITIONING;\n" \o alter
                \o formatPartitionDefinition(Deref(partitionDiff.NewPartition)) \o ";"
          [] OTHER -> ""

\* a generator that addresses every statement to the old table name
GenerateAlterStatements_oldName(tableDiff) ==
    IF tableDiff = Nil \/ Deref(tableDiff).OldTable = Nil
    THEN [panics |-> TRUE, statements |-> <<>>]
    ELSE LET d == Deref(tableDiff)
             tableName == Deref(d.OldTable).TableName
             alterClauses ==
                 generateColumnChanges(d)
                 \o (IF d.PrimaryKeyDiff # Nil
                     THEN generatePrimaryKeyChanges(Deref(d.PrimaryKeyDiff)) ELSE <<>>)
                 \o generateIndexChanges(d)
                 \o generateForeignKeyChanges(d)
             tableOptionsStmt ==
                 IF d.TableOptionsDiff # Nil
                 THEN generateTableOptionsChanges(tableName, Deref(d.TableOptionsDiff))
                 ELSE ""
             partitionStmt ==
                 IF d.PartitionDiff # Nil
                 THEN generatePartitionChanges(tableName, Deref(d.PartitionDiff))
                 ELSE ""
         IN  [panics |-> FALSE,
              statements |->
                 Part(d.TableNameChanged,
                      "ALTER TABLE " \o Quoted(tableName) \o " RENAME TO "
                      \o Quoted(Deref(d.NewTable).TableName) \o ";")
                 \o Part(Len(alterClauses) > 0,
                         "ALTER TABLE " \o Quoted(tableName) \o "\n  "
                         \o Join(alterClauses, ",\n  ") \o ";")
                 \o Part(tableOptionsStmt # "", tableOptionsStmt)
                 \o Part(partitionStmt # "", partitionStmt)]

\* GenerateAlterStatements generates all ALTER statements needed to transform
\* old table to new table: [panics, statements]. A nil tableDiff and a nil
\* OldTable are dereferenced at `tableDiff.OldTable.TableName`.
GenerateAlterStatements(tableDiff) ==
    IF tableDiff = Nil \/ Deref(tableDiff).OldTable = Nil
       \/ (Deref(tableDiff).TableNameChanged /\ Deref(tableDiff).NewTable = Nil)
    THEN [panics |-> TRUE, statements |-> <<>>]
    ELSE LET d == Deref(tableDiff)
             tableName == IF d.TableNameChanged THEN Deref(d.NewTable).TableName
                          ELSE Deref(d.OldTable).TableName
             alterClauses ==
                 generateColumnChanges(d)
                 \o (IF d.PrimaryKeyDiff # Nil
                     THEN generatePrimaryKeyChanges(Deref(d.PrimaryKeyDiff)) ELSE <<>>)
                 \o generateIndexChanges(d)
                 \o generateForeignKeyChanges(d)
             tableOptionsStmt ==
                 IF d.TableOptionsDiff # Nil
                 THEN generateTableOptionsChanges(tableName, Deref(d.TableOptionsDiff))
                 ELSE ""
             partitionStmt ==
                 IF d.PartitionDiff # Nil
                 THEN generatePartitionChanges(tableName, Deref(d.PartitionDiff))
                 ELSE ""
         IN  [panics |-> FALSE,
              statements |->
                 Part(d.TableNameChanged,
                      "ALTER TABLE " \o Quoted(Deref(d.OldTable).TableName) \o " RENAME TO "
                      \o Quoted(Deref(d.NewTable).TableName) \o ";")
                 \o Part(Len(alterClauses) > 0,
                         "ALTER TABLE " \o Quoted(tableName) \o "\n  "
                         \o Join(alterClauses, ",\n  ") \o ";")
                 \o Part(tableOptionsStmt # "", tableOptionsStmt)
                 \o Part(partitionStmt # "", partitionStmt)]

Load(old, new) ==
    /\ oldTable' = old
    /\ newTable' = new
    /\ outcome' = "loaded"
    /\ UNCHANGED <<diff, oldTokens, newTokens, dumpVars, alterStatements>>

\* two tables that differ in their columns
LoadColumnTables ==
    /\ outcome = "init"
    /\ \E oc \in SeqsUpTo(ColumnPool, MaxOldColumns),
          nc \in SeqsUpTo(ColumnPool, MaxNewColumns) :
           Load(createTestTable("users", oc), createTestTable("users", nc))

\* two tables that differ in their indexes
LoadIndexTables ==
    /\ outcome = "init"
    /\ \E oi \in SeqsUpTo(IndexPool, MaxIndexes), ni \in SeqsUpTo(IndexPool, MaxIndexes) :
           Load(Ptr([Deref(createTestTable("users", <<createTestColumn("name", "VARCHAR")>>))
                       EXCEPT !.Indexes = oi]),
                Ptr([Deref(createTestTable("users", <<createTestColumn("name", "VARCHAR")>>))
                       EXCEPT !.Indexes = ni]))

\* two tables that differ in their foreign keys
LoadForeignKeyTables ==
    /\ outcome = "init"
    /\ \E of \in SeqsUpTo(ForeignKeyPool, MaxForeignKeys),
          nf \in SeqsUpTo(ForeignKeyPool, MaxForeignKeys) :
           Load(Ptr([Deref(createTestTable("users", <<createTestColumn("role_id", "INT")>>))
                       EXCEPT !.ForeignKeys = of]),
                Ptr([Deref(createTestTable("users", <<createTestColumn("role_id", "INT")>>))
                       EXCEPT !.ForeignKeys = nf]))

\* two tables that differ in name, primary key, table options, partitioning
LoadFullTables ==
    /\ outcome = "init"
    /\ \E on \in TableNames, nn \in TableNames,
          opk \in PrimaryKeyPool, npk \in PrimaryKeyPool,
          oo \in TableOptionsPool, no \in TableOptionsPool,
          op \in PartitionPool, np \in PartitionPool :
           Load(FullTable(on, opk, oo, op), FullTable(nn, npk, no, np))

\* two tables that both have table options
LoadOptionTables ==
    /\ outcome = "init"
    /\ \E oo \in OptionSets, no \in OptionSets :
           Load(FullTable("test", Nil, Ptr(oo), Nil), FullTable("test", Nil, Ptr(no), Nil))

\* a table that is absent on one side or on both
LoadNilTables ==
    /\ outcome = "init"
    /\ \E old \in NilCaseTables, new \in NilCaseTables :
          /\ old = Nil \/ new = Nil
          /\ Load(old, new)

\* the column a declaration parses to, or nil when the parser rejects it
ParsedColumn(decl) ==
    LET r == parseColumnDefinition(NewMySQLCreateTableParser(decl))
    IN  IF r.err THEN Nil ELSE Ptr(r.column)

\* two one-column tables whose column is parsed from its declaration
ParseColumns ==
    /\ outcome = "init"
    /\ \E od \in ColumnDecls, nd \in ColumnDecls :
        \E oc \in {ParsedColumn(od)}, nc \in {ParsedColumn(nd)} :
          /\ oldTokens' = od
          /\ newTokens' = nd
          /\ UNCHANGED <<diff, dumpVars, alterStatements>>
          /\ \/ /\ oc # Nil /\ nc # Nil
                /\ oldTable' = createTestTable("t", <<Deref(oc)>>)
                /\ newTable' = createTestTable("t", <<Deref(nc)>>)
                /\ outcome' = "loaded"
             \/ /\ oc = Nil \/ nc = Nil
                /\ outcome' = "syntax_error"
                /\ UNCHANGED <<oldTable, newTable>>

\* CREATE TABLE test (id INT), then table options, a PARTITION BY clause
\* and a terminator, each of which may be empty
TableText(options, partition, end) ==
    "CREATE TABLE test (id INT)" \o options \o partition \o end

EngineOption == " ENGINE=InnoDB"

PartitionClause == " PARTITION BY HASH(id) PARTITIONS 4"

TableTexts ==
    {TableText(options, partition, end) :
        options \in {"", EngineOption}, partition \in {"", PartitionClause},
        end \in {"", ";"}}

\* two tables, each the first table ParseSQLDump returns for its text
ParseTables ==
    /\ outcome = "init"
    /\ \E od \in TableTexts, nd \in TableTexts :
        \E ot \in {ParseSQLDump(od)}, nt \in {ParseSQLDump(nd)} :
          /\ Len(ot) > 0 /\ Len(nt) > 0
          /\ statements' =
                [i \in 1..2 |->
                    [text |-> IF i = 1 THEN od ELSE nd, kind |-> "create",
                     name |-> "test", constraint |-> "", clauses |-> <<>>,
                     literal |-> ""]]
          /\ oldTable' = ot[1]
          /\ newTable' = nt[1]
          /\ outcome' = "loaded"
          /\ UNCHANGED <<diff, oldTokens, newTokens, dump, parseResult, alterStatements>>

\* analyzer.CompareTables(oldTable, newTable)
CompareTablesCall ==
    /\ outcome = "loaded"
    /\ UNCHANGED <<oldTable, newTable, oldTokens, newTokens, dumpVars, alterStatements>>
    /\ \/ /\ CompareTablesPanics(oldTable, newTable)
          /\ outcome' = "panic"
          /\ UNCHANGED diff
       \/ /\ ~CompareTablesPanics(oldTable, newTable)
          /\ \E colOrder \in RangeOrders(allColumnNames(Deref(oldTable).Columns,
                                                        Deref(newTable).Columns)),
                idxOrder \in RangeOrders(allIndexKeys(Deref(oldTable).Indexes,
                                                      Deref(newTable).Indexes)),
                fkOrder \in RangeOrders(allFKKeys(Deref(oldTable).ForeignKeys,
                                                  Deref(newTable).ForeignKeys)) :
                diff' = Ptr(CompareTables(oldTable, newTable, colOrder, idxOrder, fkOrder))
          /\ outcome' = "compared"

\* generator.GenerateAlterStatements(tableDiff) on the change-set returned
\* by CompareTables, or on a nil change-set when no tables were compared
GenerateAlterStatementsCall ==
    /\ outcome \in {"init", "compared"}
    /\ \E r \in {GenerateAlterStatements(diff)} :
          /\ outcome' = IF r.panics THEN "generator panic" ELSE "generated"
          /\ alterStatements' = r.statements
    /\ UNCHANGED <<oldTable, newTable, diff, oldTokens, newTokens, dumpVars>>

Next ==
    \/ LoadColumnTables
    \/ LoadIndexTables
    \/ LoadForeignKeyTables
    \/ LoadFullTables
    \/ LoadOptionTables
    \/ LoadNilTables
    \/ ParseColumns
    \/ ParseTables
    \/ CompareTablesCall
    \/ GenerateAlterStatementsCall

Spec == Init /\ [][Next]_vars

\* A second call analyzer.CompareTables(oldTable, newTable) on the two tables
\* of a call that has returned: the analyzer keeps no state between calls
\* (TableDiffAnalyzer has no fields), and each call ranges over its own maps.
CompareTablesAgain ==
    /\ outcome = "compared"
    /\ UNCHANGED <<oldTable, newTable, oldTokens, newTokens, outcome, dumpVars, alterStatements>>
    /\ \E colOrder \in RangeOrders(allColumnNames(Deref(oldTable).Columns,
                                                  Deref(newTable).Columns)),
          idxOrder \in RangeOrders(allIndexKeys(Deref(oldTable).Indexes,
                                                Deref(newTable).Indexes)),
          fkOrder \in RangeOrders(allFKKeys(Deref(oldTable).ForeignKeys,
                                            Deref(newTable).ForeignKeys)) :
          diff' = Ptr(CompareTables(oldTable, newTable, colOrder, idxOrder, fkOrder))

NextRepeat ==
    \/ LoadColumnTables
    \/ LoadIndexTables
    \/ LoadForeignKeyTables
    \/ LoadFullTables
    \/ LoadOptionTables
    \/ LoadNilTables
    \/ ParseColumns
    \/ CompareTablesCall
    \/ CompareTablesAgain

\* the program with repeated comparisons of the same pair of tables
SpecRepeat == Init /\ [][NextRepeat]_vars

-----------------------------------------------------------------------------
(* The parser pipeline: ParseSQLDump run token by token on a dump           *)
(* (Tokenize, the statement loop, the remaining tokens), and Parse called   *)
(* directly on a token sequence.                                            *)
(* outcome: "tokenizing", "splitting", "parsed", "returned".                *)

MaxStatements == 3
MaxReferenceClauses == 2
MaxGarbageTokens == 2

\* A statement of a dump: its text, what it is (kind), and for a CREATE TABLE
\* statement the table name, the CONSTRAINT name, the ON clauses and the
\* DEFAULT literal it has
Statement(text, kind, name, constraint, clauses, literal) ==
    [text |-> text, kind |-> kind, name |-> name,
     constraint |-> constraint, clauses |-> clauses, literal |-> literal]

\* kind "create": a well-formed CREATE [TEMPORARY] TABLE statement;
\* "other": a statement of another kind; "malformed": a CREATE TABLE
\* statement with a syntax error; "unterminated": a CREATE TABLE statement
\* whose string literal is never closed
StatementPool ==
    { Statement("CREATE TABLE users (id INT);\n", "create", "users", "", <<>>, ""),
      Statement("CREATE TEMPORARY TABLE tmp (id INT);\n", "create", "tmp", "", <<>>, ""),
      Statement("SET FOREIGN_KEY_CHECKS=0;\n", "other", "", "", <<>>, ""),
      Statement("SHOW CREATE TABLE users;\n", "other", "", "", <<>>, ""),
      Statement("CREATE TABLE test (id);\n", "malformed", "test", "", <<>>, ""),
      Statement("CREATE TABLE test (id INT PRIMARY KEY;\n", "malformed", "test", "", <<>>, ""),
      Statement("CREATE TABLE bad (name VARCHAR(10) DEFAULT 'oops);\n",
                "unterminated", "bad", "", <<>>, "") }

\* ON DELETE / ON UPDATE clauses of a foreign key
ReferenceClause(event, action) == [event |-> event, action |-> action]

ReferenceClauses ==
    { ReferenceClause(e, a) : e \in {"DELETE", "UPDATE"},
                              a \in {"CASCADE", "RESTRICT", "SET NULL"} }

RECURSIVE ReferenceClausesText(_)
ReferenceClausesText(clauses) ==
    IF clauses = <<>> THEN ""
    ELSE " ON " \o clauses[1].event \o " " \o clauses[1].action
         \o ReferenceClausesText(Tail(clauses))

ConstraintNames == {"", "fk_user"}

ConstraintText(constraint) ==
    IF constraint = "" THEN "" ELSE "CONSTRAINT " \o constraint \o " "

\* CREATE TABLE orders with one foreign key
ForeignKeyStatement(constraint, clauses) ==
    Statement("CREATE TABLE orders (user_id INT, " \o ConstraintText(constraint)
                \o "FOREIGN KEY (user_id) REFERENCES users (id)"
                \o ReferenceClausesText(clauses) \o ");",
              "foreign_key", "orders", constraint, clauses, "")

ForeignKeyStatements ==
    { ForeignKeyStatement(c, cl) :
        c \in ConstraintNames, cl \in SeqsUpTo(ReferenceClauses, MaxReferenceClauses) }

\* CREATE TABLE orders with one primary key, unique index or check constraint
ConstraintElements ==
    { [kind |-> "primary_key", text |-> "PRIMARY KEY (user_id)"],
      [kind |-> "unique", text |-> "UNIQUE KEY (user_id)"],
      [kind |-> "check", text |-> "CHECK (user_id > 0)"] }

ConstraintStatements ==
    { Statement("CREATE TABLE orders (user_id INT, " \o ConstraintText(c)
                  \o e.text \o ");", e.kind, "orders", c, <<>>, "") :
        c \in ConstraintNames, e \in ConstraintElements }

\* CREATE TABLE users with one column that has a string literal as default,
\* the literal as written in the source
DefaultLiterals == {"'Unknown'", "'It''s a test'", "''", "\"quoted\""}

DefaultStatements ==
    { Statement("CREATE TABLE users (name VARCHAR(100) DEFAULT " \o lit \o ");",
                "default", "users", "", <<>>, lit) : lit \in DefaultLiterals }

SingleStatements == ForeignKeyStatements \cup ConstraintStatements \cup DefaultStatements

RECURSIVE DumpText(_)
DumpText(stmts) ==
    IF stmts = <<>> THEN "" ELSE stmts[1].text \o DumpText(Tail(stmts))

\* ParseSQLDump(sql) is called: lexer := NewMySQLLexer(sql)
StartDump(stmts) ==
    /\ statements' = stmts
    /\ dump' = [NoDump EXCEPT !.lexer = NewMySQLLexer(DumpText(stmts))]
    /\ outcome' = "tokenizing"
    /\ UNCHANGED <<alterStatements, oldTable, newTable, diff, oldTokens, newTokens, parseResult>>

\* a dump of several short statements
ReadDump ==
    /\ outcome = "init"
    /\ \E stmts \in SeqsUpTo(StatementPool, MaxStatements) : StartDump(stmts)

\* a dump of one CREATE TABLE statement
ReadStatement ==
    /\ outcome = "init"
    /\ \E stmt \in SingleStatements : StartDump(<<stmt>>)

\* one iteration of the loop of Tokenize
TokenizeNext ==
    /\ outcome = "tokenizing"
    /\ \E s \in {TokenizeStep([l |-> dump.lexer, tokens |-> dump.tokens, done |-> FALSE])} :
          /\ dump' = [dump EXCEPT !.lexer = s.l, !.tokens = s.tokens]
          /\ outcome' = IF s.done THEN "splitting" ELSE "tokenizing"
    /\ UNCHANGED <<alterStatements, oldTable, newTable, diff, oldTokens, newTokens, statements, parseResult>>

\* one iteration of `for _, token := range tokens` of ParseSQLDump
ProcessNextToken ==
    /\ outcome = "splitting"
    /\ dump.i <= Len(dump.tokens)
    /\ \E s \in {processToken([tables |-> dump.tables,
                               currentTokens |-> dump.currentTokens,
                               handed |-> dump.handed],
                              dump.tokens[dump.i])} :
          dump' = [dump EXCEPT !.i = @ + 1, !.tables = s.tables,
                               !.currentTokens = s.currentTokens,
                               !.handed = s.handed]
    /\ UNCHANGED <<alterStatements, oldTable, newTable, diff, outcome, oldTokens, newTokens,
                   statements, parseResult>>

\* the end of ParseSQLDump: the remaining tokens, then return tables, nil
ReturnTables ==
    /\ outcome = "splitting"
    /\ dump.i > Len(dump.tokens)
    /\ \E s \in {finishStatement([tables |-> dump.tables,
                                  currentTokens |-> dump.currentTokens,
                                  handed |-> dump.handed])} :
          \E r \in {returnTables(s)} :
             dump' = [dump EXCEPT !.tables = r.tables, !.handed = s.handed,
                                  !.err = r.err]
    /\ outcome' = "parsed"
    /\ UNCHANGED <<alterStatements, oldTable, newTable, diff, oldTokens, newTokens, statements, parseResult>>

\* The pieces of one CREATE TABLE statement that has every kind of table
\* element, table options and partitioning
StatementPieces ==
    << "CREATE TEMPORARY TABLE IF NOT EXISTS t (id INT(11) NOT NULL DEFAULT 0,",
       "PRIMARY KEY (id(10) DESC), UNIQUE KEY uq (id), KEY k (id(5)),",
       "FULLTEXT ft (id), SPATIAL INDEX sp (id),",
       "CONSTRAINT fk FOREIGN KEY (id) REFERENCES r (id) ON DELETE CASCADE,",
       "CHECK (id > 0)) ENGINE=InnoDB COMMENT='c' PARTITION BY HASH (id);" >>

\* a token sequence without its EOF token
WithoutEOF(tokens) ==
    IF tokens # <<>> /\ tokens[Len(tokens)].Type = "EOF"
    THEN SubSeq(tokens, 1, Len(tokens) - 1) ELSE tokens

\* the tokens of the statement, without an EOF token
StatementTokens ==
    WithoutEOF(Tokenize(StatementPieces[1])) \o WithoutEOF(Tokenize(StatementPieces[2]))
      \o WithoutEOF(Tokenize(StatementPieces[3])) \o WithoutEOF(Tokenize(StatementPieces[4]))
      \o WithoutEOF(Tokenize(StatementPieces[5]))

\* the statement cut after its k-th token, for every k
TruncatedSequences ==
    { SubSeq(StatementTokens, 1, k) : k \in 0..Len(StatementTokens) }

\* the statement with its k-th token missing, for every k
GappedSequences ==
    { SubSeq(StatementTokens, 1, k - 1)
        \o SubSeq(StatementTokens, k + 1, Len(StatementTokens)) :
      k \in 1..Len(StatementTokens) }

GarbageTokens ==
    { Tok("CREATE", "CREATE"), Tok("TABLE", "TABLE"), Tok("IDENTIFIER", "x"),
      Tok("LPAREN", "("), Tok("RPAREN", ")"), Tok("COMMA", ","),
      Tok("INT", "INT"), Tok("KEY", "KEY"), Tok("ON", "ON"), Tok("EQUALS", "="),
      Tok("NUMBER", "1"), EOFToken }

\* short arbitrary sequences, at the start of a statement and inside its
\* element list
GarbageSequences ==
    { head \o tail :
        head \in {<<>>, SubSeq(StatementTokens, 1, 8)},
        tail \in SeqsUpTo(GarbageTokens, MaxGarbageTokens) }

\* every sequence, with and without a trailing EOF token
TokenSequences ==
    LET seqs == TruncatedSequences \cup GappedSequences \cup GarbageSequences
    IN  seqs \cup { Append(s, EOFToken) : s \in seqs }

\* NewMySQLCreateTableParser(tokens).Parse() on any token sequence
ParseTokenSequence ==
    /\ outcome = "init"
    /\ \E tokens \in TokenSequences :
         \E r \in {Parse(NewMySQLCreateTableParser(tokens))} :
            parseResult' = Ptr(r)
    /\ outcome' = "returned"
    /\ UNCHANGED <<alterStatements, oldTable, newTable, diff, oldTokens, newTokens, statements, dump>>

MaxPermutedClauses == 3

\* The attribute clauses of a column, one or more forms for each kind
ColumnClause(kind, tokens) == [kind |-> kind, tokens |-> tokens]

PermutableClauses ==
    { ColumnClause(1, <<Kw("NULL")>>),
      ColumnClause(1, <<Kw("NOT"), Kw("NULL")>>),
      ColumnClause(2, <<Kw("DEFAULT"), Tok("STRING", "Unknown")>>),
      ColumnClause(2, <<Kw("DEFAULT"), Tok("NUMBER", "0")>>),
      ColumnClause(2, <<Kw("DEFAULT"), Kw("NULL")>>),
      ColumnClause(2, <<Kw("DEFAULT"), Tok("IDENTIFIER", "CURRENT_TIMESTAMP")>>),
      ColumnClause(3, <<Kw("AUTO_INCREMENT")>>),
      ColumnClause(4, <<Kw("UNIQUE")>>),
      ColumnClause(4, <<Kw("UNIQUE"), Kw("KEY")>>),
      ColumnClause(5, <<Kw("PRIMARY"), Kw("KEY")>>),
      ColumnClause(6, <<Kw("COMMENT"), Tok("STRING", "text")>>),
      ColumnClause(7, <<Kw("COLLATE"), Tok("IDENTIFIER", "utf8mb4_bin")>>),
      ColumnClause(8, <<Kw("CHARACTER"), Kw("SET"), Tok("IDENTIFIER", "utf8mb4")>>),
      ColumnClause(9, <<Kw("VISIBLE")>>),
      ColumnClause(9, <<Kw("INVISIBLE")>>) }

\* clause lists with at most one clause of each kind
ClauseLists ==
    { cs \in SeqsUpTo(PermutableClauses, MaxPermutedClauses) :
        \A i, j \in DOMAIN cs : i # j => cs[i].kind # cs[j].kind }

\* the clauses of cs in the order of the kinds
InKindOrder(cs) ==
    CHOOSE s \in [DOMAIN cs -> Range(cs)] :
        \A i, j \in DOMAIN s : i < j => s[i].kind < s[j].kind

RECURSIVE ClauseTokens(_)
ClauseTokens(cs) ==
    IF cs = <<>> THEN <<>> ELSE cs[1].tokens \o ClauseTokens(Tail(cs))

\* the declaration `name VARCHAR(100) clauses`, closed by the table's `)`
PermutedDecl(cs) ==
    <<Tok("IDENTIFIER", "name"), Kw("VARCHAR"), Tok("LPAREN", "("),
      Tok("NUMBER", "100"), Tok("RPAREN", ")")>> \o ClauseTokens(cs)
      \o <<Tok("RPAREN", ")")>>

\* one column parsed from the same attribute clauses in two orders
ParsePermutedColumns ==
    /\ outcome = "init"
    /\ \E cs \in ClauseLists :
        \E od \in {PermutedDecl(InKindOrder(cs))}, nd \in {PermutedDecl(cs)} :
         \E oc \in {ParsedColumn(od)}, nc \in {ParsedColumn(nd)} :
          /\ oldTokens' = od
          /\ newTokens' = nd
          /\ oldTable' = IF oc # Nil THEN createTestTable("t", <<Deref(oc)>>) ELSE Nil
          /\ newTable' = IF nc # Nil THEN createTestTable("t", <<Deref(nc)>>) ELSE Nil
    /\ outcome' = "permuted"
    /\ UNCHANGED <<diff, dumpVars, alterStatements>>

\* the longest text lexed, in pieces
MaxTextPieces == 3

\* pieces of the texts lexed: a word, white space, the openers and closers
\* of string literals, of quoted identifiers, of comments and of MySQL
\* directives, and characters the lexer has no token for
TextPieces ==
    {"ab", " ", "'", Backtick, "/*", "/*!", "*/", "--", "\n", "@", "\\"}

RECURSIVE LexerText(_)
LexerText(pieces) ==
    IF pieces = <<>> THEN "" ELSE pieces[1] \o LexerText(Tail(pieces))

\* ParseSQLDump on an arbitrary text
ReadText ==
    /\ outcome = "init"
    /\ \E pieces \in SeqsUpTo(TextPieces, MaxTextPieces) :
          StartDump(<<Statement(LexerText(pieces), "text", "", "", <<>>, "")>>)

NextParse ==
    \/ ReadDump
    \/ ReadStatement
    \/ ReadText
    \/ TokenizeNext
    \/ ProcessNextToken
    \/ ReturnTables
    \/ ParseTokenSequence
    \/ ParsePermutedColumns

\* the parser on dumps, on token sequences and on column declarations
SpecParse == Init /\ [][NextParse]_vars

-----------------------------------------------------------------------------
(* Properties of CompareTables                                              *)

\* CompareTables returned a change-set for two tables that are both present
Compared == outcome = "compared" /\ oldTable # Nil /\ newTable # Nil

\* the positions of list whose element has the given ChangeType
OfKind(list, kind) == {i \in DOMAIN list : list[i].ChangeType = kind}

\* the positions of columns that declare the name n
Declaring(columns, n) == {i \in DOMAIN columns : columns[i].Name = n}

\* the names that columns declares
DeclaredNames(columns) == {columns[i].Name : i \in DOMAIN columns}

\* no two elements of columns have the same Name
DistinctNames(columns) ==
    \A i, j \in DOMAIN columns : columns[i].Name = columns[j].Name => i = j

\* a and b hold the same elements the same number of times
SameElements(a, b) ==
    /\ Len(a) = Len(b)
    /\ \A x \in Range(a) \cup Range(b) :
          Cardinality({i \in DOMAIN a : a[i] = x})
              = Cardinality({i \in DOMAIN b : b[i] = x})

\* C1: comparing a table definition with itself yields a change-set with
\* HasChanges() false, TableNameChanged false, empty column, index and
\* foreign-key diff lists, and no primary-key, table-options or partition diff.
C1_SelfCompareIsEmpty ==
    (Compared /\ oldTable = newTable) =>
        /\ ~HasChanges(Deref(diff))
        /\ ~Deref(diff).TableNameChanged
        /\ Deref(diff).ColumnDiffs = <<>>
        /\ Deref(diff).IndexDiffs = <<>>
        /\ Deref(diff).ForeignKeyDiffs = <<>>
        /\ Deref(diff).PrimaryKeyDiff = Nil
        /\ Deref(diff).TableOptionsDiff = Nil
        /\ Deref(diff).PartitionDiff = Nil

\* a table with columns, indexes, foreign keys, a primary key, table options
\* and partitioning was compared with itself
C1_Witness ==
    /\ Compared
    /\ oldTable = newTable
    /\ Deref(oldTable).Columns # <<>>
    /\ Deref(oldTable).Indexes # <<>>
    /\ Deref(oldTable).ForeignKeys # <<>>
    /\ Deref(oldTable).PrimaryKey # Nil
    /\ Deref(oldTable).TableOptions # Nil
    /\ Deref(oldTable).PartitionOptions # Nil

\* C2: a call of CompareTables with an absent old table, an absent new table
\* or both returns (it does not panic) a change-set whose OldTable and
\* NewTable are the two arguments.
C2_NilTablesAccepted ==
    (outcome \in {"compared", "panic"} /\ (oldTable = Nil \/ newTable = Nil)) =>
        /\ outcome = "compared"
        /\ Deref(diff).OldTable = oldTable
        /\ Deref(diff).NewTable = newTable

\* every element of items has exactly one entry of the given kind in list
\* (the entry's field names the element), and list has no entry of another kind
OneEntryEach(items, list, kind, field) ==
    /\ \A i \in DOMAIN items :
          Cardinality({j \in OfKind(list, kind) : list[j][field] = Ptr(items[i])}) = 1
    /\ \A j \in DOMAIN list : list[j].ChangeType = kind

\* C3: a call of CompareTables with a table T and an absent new table returns
\* exactly one "removed" entry for every column, index and foreign key of T and
\* no other entry; with an absent old table and T it returns exactly one
\* "added" entry for each and no other entry.
C3_AbsentSideListsEverything ==
    (outcome \in {"compared", "panic"} /\ (oldTable = Nil) # (newTable = Nil)) =>
        /\ outcome = "compared"
        /\ (newTable = Nil) =>
              /\ OneEntryEach(Deref(oldTable).Columns, Deref(diff).ColumnDiffs,
                              "removed", "OldColumn")
              /\ OneEntryEach(Deref(oldTable).Indexes, Deref(diff).IndexDiffs,
                              "removed", "OldIndex")
              /\ OneEntryEach(Deref(oldTable).ForeignKeys, Deref(diff).ForeignKeyDiffs,
                              "removed", "OldFK")
        /\ (oldTable = Nil) =>
              /\ OneEntryEach(Deref(newTable).Columns, Deref(diff).ColumnDiffs,
                              "added", "NewColumn")
              /\ OneEntryEach(Deref(newTable).Indexes, Deref(diff).IndexDiffs,
                              "added", "NewIndex")
              /\ OneEntryEach(Deref(newTable).ForeignKeys, Deref(diff).ForeignKeyDiffs,
                              "added", "NewFK")

\* the fields of a column that two columns of one name are compared on
ComparedColumnFields ==
    {"DataType", "Nullable", "DefaultValue", "AutoIncrement", "Unique", "PrimaryKey",
     "Comment", "Collation", "CharacterSet", "Visible", "ColumnFormat", "Storage",
     "Generated"}

\* the columns a and b differ in a compared field
ColumnsDiffer(a, b) == \E f \in ComparedColumnFields : a[f] # b[f]

\* what the column diff list holds for the name n
C4_NameRule(old, new, list, n) ==
    LET entries == {j \in DOMAIN list : list[j].Name = n}
        inOld == Declaring(old, n)
        inNew == Declaring(new, n)
    IN  /\ Cardinality(entries) <= 1
        /\ (inOld = {} /\ inNew # {}) =>
              \E j \in entries : list[j].ChangeType = "added"
        /\ (inOld # {} /\ inNew = {}) =>
              \E j \in entries : list[j].ChangeType = "removed"
        /\ (inOld # {} /\ inNew # {}) =>
              \A j \in entries : list[j].ChangeType = "modified"
        /\ \A i \in inOld, k \in inNew :
              (Cardinality(inOld) = 1 /\ Cardinality(inNew) = 1) =>
                 (entries # {} <=> ColumnsDiffer(old[i], new[k]))
        /\ (inOld = {} /\ inNew = {}) => entries = {}

\* the tables  old (id INT, name VARCHAR(100))  and
\* new (id INT AUTO_INCREMENT, name VARCHAR(255), email VARCHAR(255))
C4_Example ==
    /\ Compared
    /\ Deref(oldTable).Columns
         = <<createTestColumn("id", "INT"), VarcharColumn("name", "100")>>
    /\ Deref(newTable).Columns
         = <<[createTestColumn("id", "INT") EXCEPT !.AutoIncrement = TRUE],
             VarcharColumn("name", "255"), VarcharColumn("email", "255")>>

\* C4: columns are matched by name only: a name only in new has exactly one
\* "added" entry, a name only in old exactly one "removed" entry, a name in
\* both exactly one "modified" entry when the two columns differ in a compared
\* field and no entry when they do not; ColumnsAdded, ColumnsRemoved and
\* ColumnsModified are the numbers of entries of each kind, 1, 0 and 2 for the
\* example tables.
C4_ColumnsMatchedByName ==
    Compared =>
        /\ \A n \in DeclaredNames(Deref(oldTable).Columns)
                    \cup DeclaredNames(Deref(newTable).Columns)
                    \cup DeclaredNames(Deref(diff).ColumnDiffs) :
              C4_NameRule(Deref(oldTable).Columns, Deref(newTable).Columns,
                          Deref(diff).ColumnDiffs, n)
        /\ Deref(diff).ColumnsAdded
              = Cardinality(OfKind(Deref(diff).ColumnDiffs, "added"))
        /\ Deref(diff).ColumnsRemoved
              = Cardinality(OfKind(Deref(diff).ColumnDiffs, "removed"))
        /\ Deref(diff).ColumnsModified
              = Cardinality(OfKind(Deref(diff).ColumnDiffs, "modified"))
        /\ C4_Example =>
              /\ Deref(diff).ColumnsAdded = 1
              /\ Deref(diff).ColumnsModified = 2
              /\ Deref(diff).ColumnsRemoved = 0

\* the example tables were compared
C4_Witness == C4_Example

\* new is old with its columns declared in a different order
ColumnsReordered(old, new) ==
    /\ old.Columns # new.Columns
    /\ SameElements(old.Columns, new.Columns)
    /\ [old EXCEPT !.Columns = new.Columns] = new

\* C5 as stated: when the new table has the old table's columns in a different
\* declaration order and is otherwise identical, HasChanges() is false and the
\* column diff list is empty.
C5_ReorderIsNoChange ==
    (Compared /\ ColumnsReordered(Deref(oldTable), Deref(newTable))) =>
        /\ ~HasChanges(Deref(diff))
        /\ Deref(diff).ColumnDiffs = <<>>

\* C5, amended: the same, for tables whose column names are pairwise distinct.
C5_ReorderOfDistinctNamesIsNoChange ==
    (/\ Compared
     /\ ColumnsReordered(Deref(oldTable), Deref(newTable))
     /\ DistinctNames(Deref(oldTable).Columns)) =>
        /\ ~HasChanges(Deref(diff))
        /\ Deref(diff).ColumnDiffs = <<>>

\* two tables with the same distinctly named columns in another order were compared
C5_Witness ==
    /\ Compared
    /\ ColumnsReordered(Deref(oldTable), Deref(newTable))
    /\ DistinctNames(Deref(oldTable).Columns)

-----------------------------------------------------------------------------
(* Properties of index and foreign-key matching                             *)

\* new is old with one index renamed
IndexRenamed(old, new) ==
    /\ [old EXCEPT !.Indexes = new.Indexes] = new
    /\ Len(old.Indexes) = Len(new.Indexes)
    /\ \E i \in DOMAIN old.Indexes :
          /\ old.Indexes[i].Name # new.Indexes[i].Name
          /\ [old.Indexes[i] EXCEPT !.Name = new.Indexes[i].Name] = new.Indexes[i]
          /\ \A j \in DOMAIN old.Indexes : j # i => old.Indexes[j] = new.Indexes[j]

\* C6: when an index keeps its columns and kind and only its name differs
\* between the old and the new table, the index diff list has exactly one
\* entry, of kind "modified".
C6_IndexRenameIsOneModified ==
    (Compared /\ IndexRenamed(Deref(oldTable), Deref(newTable))) =>
        /\ Len(Deref(diff).IndexDiffs) = 1
        /\ Deref(diff).IndexDiffs[1].ChangeType = "modified"

\* the identity of an index: name or empty, ordered column names, kind
IndexTriple(idx) ==
    <<IF idx.Name = Nil THEN "" ELSE Deref(idx.Name),
      IndexColumnNames(idx.Columns), idx.IndexType>>

\* the identities of the indexes of a list
IndexTriples(indexes) == {IndexTriple(indexes[i]) : i \in DOMAIN indexes}

\* C7: indexes are matched on the triple (name or empty, ordered column names,
\* kind): an old and a new index are compared (reported as one "modified"
\* entry when they differ) only when their triples are equal, an index whose
\* triple occurs only in new is reported as "added", one whose triple occurs
\* only in old as "removed", and an index whose triple occurs on both sides is
\* reported neither as "added" nor as "removed".
C7_IndexesMatchedOnTriple ==
    Compared =>
        /\ \A j \in OfKind(Deref(diff).IndexDiffs, "modified") :
              IndexTriple(Deref(Deref(diff).IndexDiffs[j].OldIndex))
                 = IndexTriple(Deref(Deref(diff).IndexDiffs[j].NewIndex))
        /\ \A t \in IndexTriples(Deref(newTable).Indexes)
                       \ IndexTriples(Deref(oldTable).Indexes) :
              \E j \in OfKind(Deref(diff).IndexDiffs, "added") :
                 IndexTriple(Deref(Deref(diff).IndexDiffs[j].NewIndex)) = t
        /\ \A t \in IndexTriples(Deref(oldTable).Indexes)
                       \ IndexTriples(Deref(newTable).Indexes) :
              \E j \in OfKind(Deref(diff).IndexDiffs, "removed") :
                 IndexTriple(Deref(Deref(diff).IndexDiffs[j].OldIndex)) = t
        /\ \A j \in OfKind(Deref(diff).IndexDiffs, "added") :
              IndexTriple(Deref(Deref(diff).IndexDiffs[j].NewIndex))
                 \notin IndexTriples(Deref(oldTable).Indexes)
        /\ \A j \in OfKind(Deref(diff).IndexDiffs, "removed") :
              IndexTriple(Deref(Deref(diff).IndexDiffs[j].OldIndex))
                 \notin IndexTriples(Deref(newTable).Indexes)

\* the identity of a foreign key: name, local columns, referenced table,
\* referenced columns
FKIdentity(fk) ==
    <<fk.Name, fk.Columns, fk.Reference.TableName, fk.Reference.Columns>>

\* f and g are one foreign key with another ON DELETE or ON UPDATE action
DifferInActionsOnly(f, g) ==
    /\ FKIdentity(f) = FKIdentity(g)
    /\ \/ f.Reference.OnDelete # g.Reference.OnDelete
       \/ f.Reference.OnUpdate # g.Reference.OnUpdate

\* fks[i] is the only foreign key of the list that is matched under its key
AloneUnderKey(fks, i) == \A j \in DOMAIN fks : fkKey(fks[j]) = fkKey(fks[i]) => j = i

\* the action a change record holds: an explicit null for an absent action
ActionValue(action) == IF action = Nil THEN <<"null">> ELSE <<"string", Deref(action)>>

\* the change record of two foreign keys that differ in their actions only
ActionChanges(f, g) ==
    [Name |-> Nil, Columns |-> Nil, ReferenceTable |-> Nil, ReferenceColumns |-> Nil,
     OnDelete |-> IF f.Reference.OnDelete # g.Reference.OnDelete
                  THEN Ptr([Old |-> ActionValue(f.Reference.OnDelete),
                            New |-> ActionValue(g.Reference.OnDelete)])
                  ELSE Nil,
     OnUpdate |-> IF f.Reference.OnUpdate # g.Reference.OnUpdate
                  THEN Ptr([Old |-> ActionValue(f.Reference.OnUpdate),
                            New |-> ActionValue(g.Reference.OnUpdate)])
                  ELSE Nil]

\* the old table's i-th and the new table's k-th foreign key differ in their
\* actions only, and no other foreign key of either table is matched under
\* their key
C8_Case(i, k) ==
    /\ Compared
    /\ i \in DOMAIN Deref(oldTable).ForeignKeys
    /\ k \in DOMAIN Deref(newTable).ForeignKeys
    /\ DifferInActionsOnly(Deref(oldTable).ForeignKeys[i], Deref(newTable).ForeignKeys[k])
    /\ AloneUnderKey(Deref(oldTable).ForeignKeys, i)
    /\ AloneUnderKey(Deref(newTable).ForeignKeys, k)

-----------------------------------------------------------------------------
(* Properties of parsed columns                                             *)

\* the declaration has a NULL or NOT NULL clause: a NULL that is not the
\* value of DEFAULT
HasNullClause(tokens) ==
    \E i \in DOMAIN tokens :
        /\ tokens[i].Type = "NULL"
        /\ i = 1 \/ tokens[i - 1].Type # "DEFAULT"

\* both tables hold the one column parsed from oldTokens and newTokens
ParsedTables == outcome \in {"loaded", "compared"} /\ oldTokens # <<>>

\* the entry of a column that differs in nullability only
NullableEntry(oc, nc, old, new) ==
    [Name |-> oc.Name, ChangeType |-> "modified",
     OldColumn |-> Ptr(oc), NewColumn |-> Ptr(nc),
     Changes |-> [EmptyColumnChanges EXCEPT !.Nullable = Ptr([Old |-> old, New |-> new])]]

\* unspecified is a declaration with no NULL or NOT NULL clause, and explicit
\* is the same declaration followed by NULL
NullAppended(unspecified, explicit) ==
    /\ unspecified # <<>>
    /\ ~HasNullClause(unspecified)
    /\ explicit = unspecified \o <<Kw("NULL")>>

\* C9: a column declared with neither NULL nor NOT NULL parses with Nullable
\* absent; diffing it against the same declaration with an explicit NULL gives
\* one "modified" column whose only change is Nullable, with an explicit null
\* (not false) on the unspecified side and true on the other; two columns that
\* both leave nullability unspecified have no Nullable change.
C9_UnspecifiedNullability ==
    /\ ParsedTables =>
          /\ ~HasNullClause(oldTokens) => Deref(oldTable).Columns[1].Nullable = Nil
          /\ ~HasNullClause(newTokens) => Deref(newTable).Columns[1].Nullable = Nil
    /\ (Compared /\ NullAppended(oldTokens, newTokens)) =>
          Deref(diff).ColumnDiffs
             = <<NullableEntry(Deref(oldTable).Columns[1], Deref(newTable).Columns[1],
                               <<"null">>, <<"bool", TRUE>>)>>
    /\ (Compared /\ NullAppended(newTokens, oldTokens)) =>
          Deref(diff).ColumnDiffs
             = <<NullableEntry(Deref(oldTable).Columns[1], Deref(newTable).Columns[1],
                               <<"bool", TRUE>>, <<"null">>)>>
    /\ Compared =>
          \A j \in OfKind(Deref(diff).ColumnDiffs, "modified") :
              (/\ Deref(Deref(diff).ColumnDiffs[j].OldColumn).Nullable = Nil
               /\ Deref(Deref(diff).ColumnDiffs[j].NewColumn).Nullable = Nil) =>
                 Deref(diff).ColumnDiffs[j].Changes.Nullable = Nil

\* a declaration with a DEFAULT clause and no NULL clause was compared with
\* the same declaration followed by NULL
C9_Witness ==
    /\ Compared
    /\ NullAppended(oldTokens, newTokens)
    /\ Len(oldTokens) > 2
    /\ Deref(oldTable).Columns[1].Nullable = Nil
    /\ Deref(newTable).Columns[1].Nullable = Ptr(TRUE)

\* NAME(p1,p2,...) followed by " UNSIGNED" and then " ZEROFILL" when set
CanonicalRendering(dt) ==
    dt.Name
      \o (IF dt.Parameters = <<>> THEN "" ELSE "(" \o Join(dt.Parameters, ",") \o ")")
      \o (IF dt.Unsigned THEN " UNSIGNED" ELSE "")
      \o (IF dt.Zerofill THEN " ZEROFILL" ELSE "")

\* the type name, the parameter list, the unsigned or the zerofill flag differ
TypesDiffer(a, b) ==
    \/ a.Name # b.Name
    \/ a.Parameters # b.Parameters
    \/ a.Unsigned # b.Unsigned
    \/ a.Zerofill # b.Zerofill

\* `id INT` was compared with `id INT UNSIGNED ZEROFILL`
C10_Example ==
    /\ Compared
    /\ oldTokens = <<Tok("IDENTIFIER", "id"), Kw("INT")>>
    /\ newTokens = <<Tok("IDENTIFIER", "id"), Kw("INT"), Kw("UNSIGNED"), Kw("ZEROFILL")>>

\* C10: a matched column has a data-type change exactly when the type name,
\* the parameter list, the unsigned flag or the zerofill flag differ, and the
\* change holds the canonical renderings of the two types; `id INT` against
\* `id INT UNSIGNED ZEROFILL` gives "INT" and "INT UNSIGNED ZEROFILL".
C10_DataTypeChange ==
    /\ Compared =>
          \A i \in DOMAIN Deref(oldTable).Columns, k \in DOMAIN Deref(newTable).Columns :
              LET oc == Deref(oldTable).Columns[i]
                  nc == Deref(newTable).Columns[k]
                  list == Deref(diff).ColumnDiffs
                  changed == {j \in DOMAIN list :
                                 list[j].Name = oc.Name /\ list[j].Changes.DataType # Nil}
              IN  (/\ oc.Name = nc.Name
                   /\ Cardinality(Declaring(Deref(oldTable).Columns, oc.Name)) = 1
                   /\ Cardinality(Declaring(Deref(newTable).Columns, nc.Name)) = 1) =>
                      /\ TypesDiffer(oc.DataType, nc.DataType) <=> changed # {}
                      /\ \A j \in changed :
                            list[j].Changes.DataType
                               = Ptr([Old |-> CanonicalRendering(oc.DataType),
                                      New |-> CanonicalRendering(nc.DataType)])
    /\ C10_Example =>
          /\ Len(Deref(diff).ColumnDiffs) = 1
          /\ Deref(diff).ColumnDiffs[1].Changes.DataType
                = Ptr([Old |-> "INT", New |-> "INT UNSIGNED ZEROFILL"])

\* the example declarations were compared
C10_Witness == C10_Example /\ Deref(diff).ColumnDiffs # <<>>

-----------------------------------------------------------------------------
(* Properties of the returned change-set                                    *)

\* the change-set says that something of the table changed
SomethingListed(d) ==
    \/ d.TableNameChanged
    \/ d.TableOptionsChanged
    \/ d.ColumnDiffs # <<>>
    \/ d.IndexDiffs # <<>>
    \/ d.ForeignKeyDiffs # <<>>
    \/ d.PrimaryKeyDiff # Nil
    \/ d.PartitionDiff # Nil

\* C11: for every change-set returned by CompareTables, HasChanges() is true
\* exactly when the table name changed, or the table options changed, or the
\* column, index or foreign-key diff list has an entry, or a primary-key diff
\* or a partition diff is present.
C11_HasChangesIffSomethingListed ==
    Compared =>
        LET d == Deref(diff)
        IN  /\ HasChanges(d) <=> SomethingListed(d)
            /\ d.TableNameChanged <=> Deref(oldTable).TableName # Deref(newTable).TableName
            /\ d.TableOptionsChanged <=> d.TableOptionsDiff # Nil

\* a change-set whose only content is a partition diff
C11_Witness ==
    /\ Compared
    /\ Deref(diff).PartitionDiff # Nil
    /\ ~Deref(diff).TableNameChanged
    /\ ~Deref(diff).TableOptionsChanged
    /\ Deref(diff).ColumnDiffs = <<>>
    /\ Deref(diff).IndexDiffs = <<>>
    /\ Deref(diff).ForeignKeyDiffs = <<>>
    /\ Deref(diff).PrimaryKeyDiff = Nil
    /\ HasChanges(Deref(diff))

\* the fields of an index definition, all of them compared
ComparedIndexFields ==
    {"Name", "IndexType", "Columns", "KeyBlockSize", "Using", "Comment", "Visible",
     "Parser", "Algorithm", "Lock", "EngineAttribute"}

\* the fields of a foreign-key change record
ComparedForeignKeyFields ==
    {"Name", "Columns", "ReferenceTable", "ReferenceColumns", "OnDelete", "OnUpdate"}

\* the part of the foreign key fk that the field f of a change record is about
ForeignKeyField(fk, f) ==
    CASE f = "Name" -> fk.Name
      [] f = "Columns" -> fk.Columns
      [] f = "ReferenceTable" -> <<fk.Reference.TableName>>
      [] f = "ReferenceColumns" -> fk.Reference.Columns
      [] f = "OnDelete" -> fk.Reference.OnDelete
      [] f = "OnUpdate" -> fk.Reference.OnUpdate

\* One entry of a diff list, given its kind, the two definitions it carries,
\* its change record, the definitions of the two tables, the empty change
\* record, the compared fields and whether a field differs between two
\* definitions.
EntryShape(kind, old, new, changes, oldDefs, newDefs, none, fields, Differs(_, _, _)) ==
    /\ kind \in {"added", "removed", "modified"}
    /\ kind = "added" =>
          /\ old = Nil
          /\ new # Nil /\ Deref(new) \in Range(newDefs)
          /\ changes = none
    /\ kind = "removed" =>
          /\ new = Nil
          /\ old # Nil /\ Deref(old) \in Range(oldDefs)
          /\ changes = none
    /\ kind = "modified" =>
          /\ old # Nil /\ Deref(old) \in Range(oldDefs)
          /\ new # Nil /\ Deref(new) \in Range(newDefs)
          /\ \A f \in fields : changes[f] # Nil <=> Differs(Deref(old), Deref(new), f)
          /\ \E f \in fields : changes[f] # Nil

\* C12: in every change-set returned by CompareTables, each column, index and
\* foreign-key entry tagged "added" carries only the new definition, each
\* entry tagged "removed" carries only the old definition, and each entry
\* tagged "modified" carries both definitions and a change record in which a
\* field is present exactly when that field differs between old and new, with
\* at least one field present.
C12_EntriesCarryTheirDefinitions ==
    Compared =>
        LET d == Deref(diff)
            o == Deref(oldTable)
            n == Deref(newTable)
        IN  /\ \A j \in DOMAIN d.ColumnDiffs :
                  LET e == d.ColumnDiffs[j]
                  IN  EntryShape(e.ChangeType, e.OldColumn, e.NewColumn, e.Changes,
                                 o.Columns, n.Columns, EmptyColumnChanges,
                                 ComparedColumnFields,
                                 LAMBDA a, b, f : a[f] # b[f])
            /\ \A j \in DOMAIN d.IndexDiffs :
                  LET e == d.IndexDiffs[j]
                  IN  EntryShape(e.ChangeType, e.OldIndex, e.NewIndex, e.Changes,
                                 o.Indexes, n.Indexes, EmptyIndexChanges,
                                 ComparedIndexFields,
                                 LAMBDA a, b, f : a[f] # b[f])
            /\ \A j \in DOMAIN d.ForeignKeyDiffs :
                  LET e == d.ForeignKeyDiffs[j]
                  IN  EntryShape(e.ChangeType, e.OldFK, e.NewFK, e.Changes,
                                 o.ForeignKeys, n.ForeignKeys, EmptyForeignKeyChanges,
                                 ComparedForeignKeyFields,
                                 LAMBDA a, b, f :
                                     ForeignKeyField(a, f) # ForeignKeyField(b, f))

\* a change-set with an added, a removed and a modified entry, the modified
\* one with some field present and some field absent
C12_Witness ==
    /\ Compared
    /\ \E list \in {Deref(diff).ColumnDiffs, Deref(diff).IndexDiffs,
                    Deref(diff).ForeignKeyDiffs} :
          /\ \E j \in DOMAIN list : list[j].ChangeType = "added"
          /\ \E j \in DOMAIN list : list[j].ChangeType = "removed"
          /\ \E j \in DOMAIN list :
                /\ list[j].ChangeType = "modified"
                /\ \E f, g \in DOMAIN list[j].Changes :
                      list[j].Changes[f] # Nil /\ list[j].Changes[g] = Nil

\* C13: the analyzer is a pure function of its inputs: two invocations of
\* CompareTables on the same pair of table definitions return the same
\* change-set, with the same entries in the same order in the column, index
\* and foreign-key diff lists.
C13_SameChangeSetOnRepeat ==
    [][(/\ outcome = "compared" /\ outcome' = "compared"
        /\ oldTable' = oldTable /\ newTable' = newTable) => diff' = diff]_vars

-----------------------------------------------------------------------------
(* Properties of ParseSQLDump and of the table parser                       *)

\* ParseSQLDump has returned the tables of the dump in statements
DumpParsed == outcome = "parsed"

\* the kinds of well-formed CREATE [TEMPORARY] TABLE statements
WellFormedKinds == {"create", "foreign_key", "primary_key", "unique", "check", "default"}

\* the table names of the returned table definitions, in order
ReturnedNames == [i \in DOMAIN dump.tables |-> Deref(dump.tables[i]).TableName]

\* the table names of the well-formed CREATE TABLE statements, in source order
RECURSIVE CreatedNames(_)
CreatedNames(stmts) ==
    IF stmts = <<>> THEN <<>>
    ELSE (IF stmts[1].kind \in WellFormedKinds THEN <<stmts[1].name>> ELSE <<>>)
         \o CreatedNames(Tail(stmts))

\* C14: ParseSQLDump returns exactly one table definition for each
\* well-formed CREATE [TEMPORARY] TABLE statement of the dump, in source
\* order, and every statement of another kind placed before, between or after
\* them contributes no table definition (ParseSQLDump has no error to
\* contribute: it always returns nil).
C14_OneTablePerCreateStatement ==
    (/\ DumpParsed
     /\ \A i \in DOMAIN statements :
           statements[i].kind \in WellFormedKinds \cup {"other"})
        => ReturnedNames = CreatedNames(statements)

\* what ParseSQLDump returns for the statement alone
Standalone(stmt) == ParseSQLDump(stmt.text)

\* a CREATE TABLE statement that fails to parse
FailsToParse(stmt) == stmt.kind \notin {"other", "text"} /\ Standalone(stmt) = <<>>

\* the quoted strings, quoted identifiers and block comments of the statement
\* are closed within it: the lexer reads a word that follows the statement
\* as a token of its own
LexicallyClosed(stmt) ==
    LET tokens == Tokenize(stmt.text \o " CREATE")
    IN  Len(tokens) >= 2 /\ tokens[Len(tokens) - 1].Type = "CREATE"

\* what ParseSQLDump returns for the dump without its failing statements:
\* the tables of the remaining statements, in order
RECURSIVE TablesWithoutFailing(_)
TablesWithoutFailing(stmts) ==
    IF stmts = <<>> THEN <<>>
    ELSE (IF FailsToParse(stmts[1]) THEN <<>> ELSE Standalone(stmts[1]))
         \o TablesWithoutFailing(Tail(stmts))

\* a dump with a CREATE TABLE statement that fails to parse
SomeStatementFails == \E i \in DOMAIN statements : FailsToParse(statements[i])

\* C15 (as stated): when one CREATE TABLE statement of a dump fails to
\* parse, only that statement is affected: every other CREATE TABLE
\* statement of the dump, before or after it, is parsed and returned exactly
\* as it would be if the failing statement were not in the dump.
C15_FailingStatementIsIsolated ==
    (DumpParsed /\ SomeStatementFails)
        => dump.tables = TablesWithoutFailing(statements)

\* C15 (amended): the same, for failing statements whose quoted strings,
\* quoted identifiers and block comments are closed within the statement.
C15_ClosedFailingStatementIsIsolated ==
    (/\ DumpParsed
     /\ SomeStatementFails
     /\ \A i \in DOMAIN statements :
           FailsToParse(statements[i]) => LexicallyClosed(statements[i]))
        => dump.tables = TablesWithoutFailing(statements)

\* a failing statement between two CREATE TABLE statements that are both
\* returned
C15_Witness ==
    /\ DumpParsed
    /\ Len(statements) = 3
    /\ FailsToParse(statements[2]) /\ LexicallyClosed(statements[2])
    /\ statements[1].kind = "create" /\ statements[3].kind = "create"
    /\ ReturnedNames = <<statements[1].name, statements[3].name>>

\* Parse has returned for a token sequence
ParseReturned == outcome = "returned"

\* C16: for every finite token sequence (an empty one, one without a
\* trailing EOF token, one that ends in the middle of a clause), Parse
\* terminates and returns either a table definition or a syntax error, and
\* its cursor stays on a token of the sequence or just past the last one
\* (where advance and peek read the EOF placeholder, not the sequence).
C16_ParseReturnsTableOrError ==
    ParseReturned =>
        LET r == Deref(parseResult)
        IN  /\ r.err \in BOOLEAN
            /\ r.err <=> r.stmt = Nil
            /\ r.p.pos \in 1..(Len(r.p.tokens) + 1)

\* a sequence without EOF token that ends in the middle of a clause: a
\* syntax error, the cursor past the last token
C16_Witness ==
    /\ ParseReturned
    /\ LET r == Deref(parseResult)
       IN  /\ r.err
           /\ Len(r.p.tokens) > 10
           /\ r.p.tokens[Len(r.p.tokens)].Type = "REFERENCES"
           /\ r.p.pos = Len(r.p.tokens) + 1

\* ParseSQLDump has returned for a dump of one statement of the kind
SingleParsed(kinds) ==
    DumpParsed /\ Len(statements) = 1 /\ statements[1].kind \in kinds

\* the only table of the dump, when ParseSQLDump returned exactly one
OnlyTable == Deref(dump.tables[1])

\* C17: the default value of a column whose DEFAULT is a quoted string
\* literal is the raw source text of the literal, its surrounding quotes and
\* any doubled quotes included: DEFAULT 'It''s a test' is captured as
\* 'It''s a test' and DEFAULT 'Unknown' as 'Unknown', quotes included.
C17_DefaultKeepsSourceText ==
    SingleParsed({"default"}) =>
        /\ Len(dump.tables) = 1
        /\ Len(OnlyTable.Columns) = 1
        /\ OnlyTable.Columns[1].DefaultValue = Ptr(statements[1].literal)

\* the name of the primary key, unique index, foreign key or check
\* constraint of the only table
ElementName(kind) ==
    IF kind = "primary_key" THEN Deref(OnlyTable.PrimaryKey).Name
    ELSE IF kind = "unique" THEN OnlyTable.Indexes[1].Name
    ELSE IF kind = "foreign_key" THEN OnlyTable.ForeignKeys[1].Name
    ELSE OnlyTable.CheckConstraints[1].Name

\* C18: when a table element starts with CONSTRAINT name, the name is
\* consumed and becomes the name of the primary key, unique index, foreign
\* key or check constraint that follows it in the same element.
C18_ConstraintNameIsKept ==
    (/\ SingleParsed({"primary_key", "unique", "foreign_key", "check"})
     /\ statements[1].constraint # ""
     /\ Len(dump.tables) = 1)
        => ElementName(statements[1].kind) = Ptr(statements[1].constraint)

\* the action of the last clause of cs for the event, nil when there is none
RECURSIVE LastAction(_, _)
LastAction(cs, event) ==
    IF cs = <<>> THEN Nil
    ELSE IF cs[Len(cs)].event = event THEN Ptr(cs[Len(cs)].action)
    ELSE LastAction(SubSeq(cs, 1, Len(cs) - 1), event)

\* C19: after REFERENCES table (columns) a foreign key accepts zero or more
\* clauses ON DELETE action / ON UPDATE action, action one of CASCADE,
\* RESTRICT, SET NULL, in any order: the statement still parses, and the
\* delete and update actions of the foreign key are those of the last clause
\* of each kind (absent when there is no clause of that kind).
C19_ReferenceActionsAccepted ==
    SingleParsed({"foreign_key"}) =>
        /\ Len(dump.tables) = 1
        /\ Len(OnlyTable.ForeignKeys) = 1
        /\ OnlyTable.ForeignKeys[1].Reference.OnDelete
             = LastAction(statements[1].clauses, "DELETE")
        /\ OnlyTable.ForeignKeys[1].Reference.OnUpdate
             = LastAction(statements[1].clauses, "UPDATE")

\* one declaration has been parsed with its clauses in two orders
PermutedParsed == outcome = "permuted"

\* C20: column attribute clauses (NULL / NOT NULL, DEFAULT value,
\* AUTO_INCREMENT, UNIQUE [KEY], PRIMARY KEY, COMMENT 'text', COLLATE name,
\* CHARACTER SET name, VISIBLE / INVISIBLE) are recognized in any order:
\* every permutation of a given set of these clauses parses, and to the same
\* column definition.
C20_ClauseOrderIsIrrelevant ==
    PermutedParsed =>
        /\ oldTable # Nil /\ newTable # Nil
        /\ Deref(newTable).Columns = Deref(oldTable).Columns

\* three clauses in another order than the order of the kinds, each of them
\* recognized
C20_Witness ==
    /\ PermutedParsed
    /\ newTokens # oldTokens
    /\ newTable # Nil
    /\ LET column == Deref(newTable).Columns[1]
       IN  /\ column.Nullable = Ptr(FALSE)
           /\ column.DefaultValue = Ptr("Unknown")
           /\ column.Comment = Ptr("text")

\* ParseSQLDump is in its token loop or has returned
Splitting == outcome \in {"splitting", "parsed"}

\* the first position at or after from where h lies in tokens, 0 if nowhere
FindFrom(h, tokens, from) ==
    LET found == {j \in from..(Len(tokens) - Len(h) + 1) :
                     SubSeq(tokens, j, j + Len(h) - 1) = h}
    IN  IF found = {} THEN 0
        ELSE CHOOSE j \in found : \A k \in found : j <= k

\* the sequences of handed lie in tokens one after the other, from position
\* from on, without a token in common
RECURSIVE LieApart(_, _, _)
LieApart(handed, tokens, from) ==
    IF handed = <<>> THEN TRUE
    ELSE LET at == FindFrom(handed[1], tokens, from)
         IN  /\ at # 0
             /\ LieApart(Tail(handed), tokens, at + Len(handed[1]))

\* C21: while ParseSQLDump walks the token stream, a CREATE token always
\* closes the statement being accumulated and starts a new one, and `;` or
\* end of input closes the current one; so every token sequence handed to
\* the table parser begins with CREATE TABLE or CREATE TEMPORARY TABLE, has
\* no CREATE token other than its first, has `;` only as its last token,
\* and no token is handed to the table parser in more than one statement.
C21_StatementsAreCutAtCreateAndSemicolon ==
    Splitting =>
        /\ dump.i > 1 =>
              LET token == dump.tokens[dump.i - 1]
              IN  /\ token.Type = "CREATE" => dump.currentTokens = <<token>>
                  /\ token.Type \in {"SEMICOLON", "EOF"} => dump.currentTokens = <<>>
        /\ \A k \in DOMAIN dump.handed :
              LET h == dump.handed[k]
              IN  /\ Len(h) >= 2
                  /\ h[1].Type = "CREATE"
                  /\ \/ h[2].Type = "TABLE"
                     \/ h[2].Type = "TEMPORARY" /\ Len(h) >= 3 /\ h[3].Type = "TABLE"
                  /\ \A j \in 2..Len(h) : h[j].Type # "CREATE"
                  /\ \A j \in 1..(Len(h) - 1) : h[j].Type # "SEMICOLON"
        /\ LieApart(dump.handed, dump.tokens, 1)

\* three statements handed to the table parser, one of them cut at the
\* CREATE token inside SHOW CREATE TABLE
C21_Witness ==
    /\ outcome = "parsed"
    /\ Len(dump.handed) = 3
    /\ \E i \in DOMAIN statements : statements[i].text = "SHOW CREATE TABLE users;\n"

\* C22: for every input text, also one with an unterminated string
\* literal, quoted identifier or block comment or with characters of no
\* token, Tokenize ends and returns tokens of which exactly one is the
\* EOF token, the last: while the loop runs no EOF token has been appended
\* and every token appended has consumed a rune of the text, so the loop
\* makes at most Len(text) + 1 turns.
C22_TokenizeEndsWithOneEOF ==
    /\ outcome = "tokenizing" =>
          /\ \A i \in DOMAIN dump.tokens : dump.tokens[i].Type # "EOF"
          /\ Len(dump.tokens) < dump.lexer.pos
          /\ dump.lexer.pos <= Len(dump.lexer.text) + 1
    /\ Splitting =>
          /\ Len(dump.tokens) >= 1
          /\ \A i \in DOMAIN dump.tokens :
                dump.tokens[i].Type = "EOF" <=> i = Len(dump.tokens)

\* a text whose string literal is never closed has been tokenized
C22_Witness ==
    /\ Splitting
    /\ dump.lexer.text = "'ab@"
    /\ dump.tokens = <<Tok("STRING", "ab@"), EOFToken>>

\* the text lexed is opener, one piece, */
Spans(opener) ==
    {opener \o w \o "*/" : w \in TextPieces \ {"*/"}}

\* C23: a /*!...*/ span is returned as one MYSQL_DIRECTIVE token, and an
\* ordinary /* ... */ block comment gives no token.
C23_DirectiveIsAToken ==
    Splitting =>
       /\ dump.lexer.text \in Spans("/*!") =>
             /\ Len(dump.tokens) = 2
             /\ dump.tokens[1].Type = "MYSQL_DIRECTIVE"
       /\ dump.lexer.text \in Spans("/*") => dump.tokens = <<EOFToken>>

\* the options compareTableOptions compares
ComparedOptions == {"Engine", "AutoIncrement", "CharacterSet", "Collate", "Comment"}

\* C24: when both tables have table options, a table-options diff, of kind
\* modified, is produced exactly when engine, auto-increment, character
\* set, collation or comment differ; option sets that differ in other
\* options only give no table-options diff and leave TableOptionsChanged
\* false.
C24_OnlyFiveOptionsAreCompared ==
    (Compared /\ Deref(oldTable).TableOptions # Nil
              /\ Deref(newTable).TableOptions # Nil) =>
        LET o == Deref(Deref(oldTable).TableOptions)
            n == Deref(Deref(newTable).TableOptions)
            d == Deref(diff)
            differ == \E f \in ComparedOptions : ~ptrEqual(o[f], n[f])
        IN  /\ d.TableOptionsDiff # Nil <=> differ
            /\ d.TableOptionsChanged <=> differ
            /\ d.TableOptionsDiff # Nil =>
                  /\ Deref(d.TableOptionsDiff).ChangeType = "modified"
                  /\ \A f \in ComparedOptions :
                        Deref(d.TableOptionsDiff).Changes[f] # Nil
                            <=> ~ptrEqual(o[f], n[f])

\* two option sets that differ in the row format only were compared
C24_Witness ==
    /\ Compared
    /\ Deref(oldTable).TableOptions = Ptr(TableOptionsWith({<<"Engine", Ptr("InnoDB")>>}))
    /\ Deref(newTable).TableOptions =
          Ptr(TableOptionsWith({<<"Engine", Ptr("InnoDB")>>, <<"RowFormat", Ptr("DYNAMIC")>>}))
    /\ Deref(diff).TableOptionsDiff = Nil
    /\ ~Deref(diff).TableOptionsChanged

-----------------------------------------------------------------------------
(* Properties of the ALTER TABLE statement generator                        *)

\* GenerateAlterStatements was called and returned or panicked
GeneratorCalled == outcome \in {"generated", "generator panic"}

\* C25: GenerateAlterStatements called with a nil table diff returns an
\* empty statement list and does not panic.
C25_NilDiffGivesNoStatements ==
    (GeneratorCalled /\ diff = Nil) =>
        /\ outcome = "generated"
        /\ alterStatements = <<>>

\* text has word at position i
HasAt(text, i, word) ==
    /\ i + Len(word) - 1 <= Len(text)
    /\ SubSeq(text, i, i + Len(word) - 1) = word

\* every ALTER TABLE of the statement is followed by the quoted name
Addresses(statement, name) ==
    /\ HasAt(statement, 1, "ALTER TABLE ")
    /\ \A i \in 1..Len(statement) :
          HasAt(statement, i, "ALTER TABLE ") =>
              \/ HasAt(statement, i, "ALTER TABLE " \o Quoted(name) \o " ")
              \/ HasAt(statement, i, "ALTER TABLE " \o Quoted(name) \o "\n")

\* the change-set has no change but the table name
OnlyNameChanged(d) ==
    /\ d.TableNameChanged
    /\ d.ColumnDiffs = <<>> /\ d.IndexDiffs = <<>> /\ d.ForeignKeyDiffs = <<>>
    /\ d.PrimaryKeyDiff = Nil /\ d.TableOptionsDiff = Nil /\ d.PartitionDiff = Nil

\* C26: when the table name changed, the first statement returned by
\* GenerateAlterStatements is ALTER TABLE `old` RENAME TO `new`;, every
\* statement after it addresses the table by the new name, and a change-set
\* whose only change is the name gives that one statement.
C26_RenameComesFirst ==
    (GeneratorCalled /\ diff # Nil /\ Deref(diff).TableNameChanged) =>
        LET d == Deref(diff)
            old == Deref(d.OldTable).TableName
            new == Deref(d.NewTable).TableName
        IN  /\ outcome = "generated"
            /\ Len(alterStatements) >= 1
            /\ alterStatements[1] =
                  "ALTER TABLE " \o Quoted(old) \o " RENAME TO " \o Quoted(new) \o ";"
            /\ \A i \in 2..Len(alterStatements) : Addresses(alterStatements[i], new)
            /\ OnlyNameChanged(d) => Len(alterStatements) = 1

\* a renamed table whose primary key, options and partitioning changed too
C26_Witness ==
    /\ outcome = "generated"
    /\ Deref(diff).TableNameChanged
    /\ Len(alterStatements) = 4

\* C27: in every change-set returned by CompareTables the counters agree
\* with the lists: the three column counters add up to the length of the
\* column diff list, the three index counters to the length of the index
\* diff list, the three foreign-key counters to the length of the
\* foreign-key diff list, and TableOptionsChanged is true exactly when a
\* table-options diff is present.
C27_CountersAgreeWithLists ==
    Compared =>
        LET d == Deref(diff)
        IN  /\ d.ColumnsAdded + d.ColumnsRemoved + d.ColumnsModified = Len(d.ColumnDiffs)
            /\ d.IndexesAdded + d.IndexesRemoved + d.IndexesModified = Len(d.IndexDiffs)
            /\ d.ForeignKeysAdded + d.ForeignKeysRemoved + d.ForeignKeysModified
                  = Len(d.ForeignKeyDiffs)
            /\ d.TableOptionsChanged = (d.TableOptionsDiff # Nil)

\* a change-set with an added and a removed foreign key
C27_Witness ==
    /\ Compared
    /\ Deref(diff).ForeignKeysAdded >= 1
    /\ Deref(diff).ForeignKeysRemoved >= 1
    /\ Len(Deref(diff).ForeignKeyDiffs) >= 2

\* the identity of a foreign key with an absent name taken as empty
FKTuple(fk) ==
    <<IF fk.Name = Nil THEN "" ELSE Deref(fk.Name),
      fk.Columns, fk.Reference.TableName, fk.Reference.Columns>>

FKTuples(fks) == {FKTuple(fks[i]) : i \in DOMAIN fks}

\* C28: two indexes whose (name, ordered column names, kind) triples differ,
\* and two foreign keys whose (name, local columns, referenced table,
\* referenced columns) tuples differ, are never treated as one entity, also
\* when a name or a column name contains ':': no modified entry pairs two
\* definitions of different identity, and every definition whose identity is
\* on one side only has its own added or removed entry.
C28_DistinctIdentitiesStayApart ==
    Compared =>
        LET d == Deref(diff)
            o == Deref(oldTable)
            n == Deref(newTable)
        IN  /\ \A j \in OfKind(d.IndexDiffs, "modified") :
                  IndexTriple(Deref(d.IndexDiffs[j].OldIndex))
                     = IndexTriple(Deref(d.IndexDiffs[j].NewIndex))
            /\ \A j \in OfKind(d.ForeignKeyDiffs, "modified") :
                  FKTuple(Deref(d.ForeignKeyDiffs[j].OldFK))
                     = FKTuple(Deref(d.ForeignKeyDiffs[j].NewFK))
            /\ \A t \in FKTuples(n.ForeignKeys) \ FKTuples(o.ForeignKeys) :
                  \E j \in OfKind(d.ForeignKeyDiffs, "added") :
                     FKTuple(Deref(d.ForeignKeyDiffs[j].NewFK)) = t
            /\ \A t \in FKTuples(o.ForeignKeys) \ FKTuples(n.ForeignKeys) :
                  \E j \in OfKind(d.ForeignKeyDiffs, "removed") :
                     FKTuple(Deref(d.ForeignKeyDiffs[j].OldFK)) = t
            /\ Cardinality(IndexTriples(o.Indexes) \ IndexTriples(n.Indexes))
                  = CountKind(d.IndexDiffs, "removed")
            /\ Cardinality(IndexTriples(n.Indexes) \ IndexTriples(o.Indexes))
                  = CountKind(d.IndexDiffs, "added")

\* the handed token sequences the table parser rejected
Rejected == {i \in DOMAIN dump.handed : parseTokens(dump.handed[i]) = Nil}

\* C29: ParseSQLDump returns a nil error for every input text: a CREATE
\* TABLE statement the table parser rejects is left out of the returned
\* list, which holds one table for every statement the parser accepted, and
\* no error reaches the caller.
C29_ParseSQLDumpReturnsNoError ==
    outcome = "parsed" =>
        /\ dump.err = Nil
        /\ \A i \in DOMAIN dump.tables : dump.tables[i] # Nil
        /\ Len(dump.tables) = Len(dump.handed) - Cardinality(Rejected)

\* a dump with a rejected statement and an accepted one has been parsed
C29_Witness ==
    /\ outcome = "parsed"
    /\ Rejected # {}
    /\ dump.tables # <<>>
    /\ dump.err = Nil

\* the two texts of the comparison were parsed by ParseTables
ParsedFrom(old, new) ==
    /\ Len(statements) = 2
    /\ statements[1].text = old
    /\ statements[2].text = new

\* C30: a CREATE TABLE statement with no table options parses with table
\* options absent, also when a PARTITION BY clause directly follows the
\* closing parenthesis of the element list; so comparing a table without
\* options and partitioning with the same table with only a PARTITION BY
\* clause added reports a partition diff and no table-options diff.
C30_PartitionOnlyLeavesOptionsAbsent ==
    \A oe \in {"", ";"}, ne \in {"", ";"} :
        (Compared /\ ParsedFrom(TableText("", "", oe), TableText("", PartitionClause, ne))) =>
            /\ Deref(oldTable).TableOptions = Nil
            /\ Deref(newTable).TableOptions = Nil
            /\ Deref(newTable).PartitionOptions # Nil
            /\ Deref(diff).PartitionDiff # Nil
            /\ Deref(diff).TableOptionsDiff = Nil
            /\ ~Deref(diff).TableOptionsChanged

====
